---- MODULE Spec2Model ----
(***************************************************************************)
(* Model of graphene_sqlalchemy_filter: the operator registry, the naming  *)
(* rule of generated filter keys, FilterSet._split_graphql_field, the      *)
(* recursive translation FilterSet._translate_many_filter / filter, the    *)
(* alias lookup FilterSet.aliased, the definition of a filter-set class    *)
(* (__init_subclass_with_meta__) and the loaders of the nested connection  *)
(* fields (ModelLoader, NestedFilterableConnectionField).                  *)
(*                                                                         *)
(* Names (attribute names, render names, request keys) are sequences of    *)
(* words: the name split at DELIMITER '_'.  "not_in" is <<"not","in">>,    *)
(* the empty render name '' is <<>>.  str.endswith('_' + name) is then a   *)
(* proper-suffix test on word sequences, and len(name) is the sum of the   *)
(* word lengths plus the delimiters between them.                          *)
(***************************************************************************)
EXTENDS Integers, Sequences, FiniteSets, TLC

VARIABLES
    pc,        \* position of the modelled caller
    cls,       \* the filter-set class the operation is called on
    origin,    \* (attribute, operator) a key was generated from
    key,       \* the external key (graphql field name)
    split,     \* result of _split_graphql_field
    info,      \* resolve info: context type and the context's alias cache
    query,     \* the SQLAlchemy query being filtered
    filters,   \* the filter tree of the request
    ret,       \* what FilterSet.filter returned or raised
    aliases,   \* log of the calls of FilterSet.aliased, the joins and the passes
    TSVectorType,     \* what the import at lines 57-60 bound the name to
    classes,          \* the class objects: FilterSet and its subclasses
    AUTO_TYPE_NAMES,  \* FilterSet.AUTO_TYPE_NAMES
    auto_types,       \* the names of the nested types created so far
    defined,          \* the class statements executed and their outcomes
    context,   \* info.context of a nested resolution and its loader cache
    calls,     \* log of the calls of _get_or_create_data_loader
    session,   \* the rows of the database session
    loader,    \* a ModelLoader
    promise,   \* the keys queued on the loader and what they resolved to
    queues,    \* per loader of the context: its queue of keys and their promises
    batches,   \* log of the runs of batch_load_fn during a tick
    connection_field  \* a FilterableConnectionField subclass, its factory
                      \* and the nested field the factory made

\* the variables of the class definitions
definitions == <<TSVectorType, classes, AUTO_TYPE_NAMES, auto_types, defined>>

\* the variables of the nested connection fields
loading == <<context, calls, session, loader, promise, queues, batches,
            connection_field>>

vars == <<pc, cls, origin, key, split, info, query, filters, ret, aliases,
          definitions, loading>>

\* no class is being defined
NoDefinitions ==
    /\ TSVectorType = ""
    /\ classes = <<>>
    /\ AUTO_TYPE_NAMES = <<>>
    /\ auto_types = <<>>
    /\ defined = <<>>

\* no connection field class is defined
NoField ==
    [filter_arg |-> "", filters |-> FALSE, factory |-> "",
     model_loader_class |-> "", nested |-> "",
     args |-> [name |-> "", value |-> 0]]

\* no nested field is being resolved
NoLoading ==
    /\ context = [type |-> "", has |-> FALSE, data_loaders |-> <<>>]
    /\ calls = <<>>
    /\ session = {}
    /\ loader = [parent_model |-> "", sort |-> "", filters |-> 0]
    /\ promise = [keys |-> <<>>, state |-> "", value |-> <<>>, error |-> ""]
    /\ queues = <<>>
    /\ batches = <<>>
    /\ connection_field = NoField

(***************************************************************************)
(* Words and lengths                                                       *)
(***************************************************************************)
WordLen(w) ==
    CASE w = "eq" -> 2 [] w = "ne" -> 2 [] w = "like" -> 4 [] w = "ilike" -> 5
      [] w = "is" -> 2 [] w = "null" -> 4 [] w = "in" -> 2 [] w = "not" -> 3
      [] w = "lt" -> 2 [] w = "lte" -> 3 [] w = "gt" -> 2 [] w = "gte" -> 3
      [] w = "range" -> 5 [] w = "contains" -> 8 [] w = "contained" -> 9
      [] w = "by" -> 2 [] w = "overlap" -> 7 [] w = "and" -> 3 [] w = "or" -> 2
      [] w = "zero" -> 4 [] w = "equal" -> 5 [] w = "i" -> 1
      [] w = "newer" -> 5 [] w = "asked" -> 5 [] w = "for" -> 3
      [] w = "this" -> 4 [] w = "username" -> 8 [] w = "balance" -> 7
      [] w = "created" -> 7 [] w = "x" -> 1 [] w = "active" -> 6
      [] w = "name" -> 4 [] w = "assignments" -> 11 [] w = "task" -> 4
      [] w = "users" -> 5 [] w = "user" -> 4 [] w = "lead" -> 4
      [] w = "assignment" -> 10 [] w = "admin" -> 5 [] w = "bogus" -> 5
      [] w = "status" -> 6 [] w = "id" -> 2
      [] OTHER -> 1

RECURSIVE NameLen(_)
\* len(name) of the string the words spell
NameLen(n) ==
    IF n = <<>> THEN 0
    ELSE IF Len(n) = 1 THEN WordLen(n[1])
    ELSE WordLen(n[1]) + 1 + NameLen(Tail(n))

\* graphql_field.endswith(DELIMITER + name)
EndsWith(field, name) ==
    /\ Len(field) > Len(name)
    /\ SubSeq(field, Len(field) - Len(name) + 1, Len(field)) = name

\* graphql_field[: -len(DELIMITER + name)]
StripSuffix(field, name) == SubSeq(field, 1, Len(field) - Len(name))

(***************************************************************************)
(* Operator registry                                                       *)
(***************************************************************************)
EQ == "eq"
NE == "ne"
LIKE == "like"
ILIKE == "ilike"
IS_NULL == "is_null"
IN_ == "in"
NOT_IN == "not_in"
LT == "lt"
LTE == "lte"
GT == "gt"
GTE == "gte"
RANGE == "range"
CONTAINS == "contains"
CONTAINED_BY == "contained_by"
OVERLAP == "overlap"
AND == "and"
OR == "or"
NOT == "not"
ZERO == "zero"

\* FilterSet.GRAPHQL_EXPRESSION_NAMES, in dict order
GRAPHQL_EXPRESSION_NAMES ==
    << [expr |-> EQ, name |-> <<>>],
       [expr |-> NE, name |-> <<"ne">>],
       [expr |-> LIKE, name |-> <<"like">>],
       [expr |-> ILIKE, name |-> <<"ilike">>],
       [expr |-> IS_NULL, name |-> <<"is", "null">>],
       [expr |-> IN_, name |-> <<"in">>],
       [expr |-> NOT_IN, name |-> <<"not", "in">>],
       [expr |-> LT, name |-> <<"lt">>],
       [expr |-> LTE, name |-> <<"lte">>],
       [expr |-> GT, name |-> <<"gt">>],
       [expr |-> GTE, name |-> <<"gte">>],
       [expr |-> RANGE, name |-> <<"range">>],
       [expr |-> CONTAINS, name |-> <<"contains">>],
       [expr |-> CONTAINED_BY, name |-> <<"contained", "by">>],
       [expr |-> OVERLAP, name |-> <<"overlap">>],
       [expr |-> AND, name |-> <<"and">>],
       [expr |-> OR, name |-> <<"or">>],
       [expr |-> NOT, name |-> <<"not">>] >>

\* dict(base, **{expr: name}): replace the value of an existing key in place
Renamed(table, expr, name) ==
    [i \in 1..Len(table) |->
        IF table[i].expr = expr THEN [expr |-> expr, name |-> name]
        ELSE table[i]]

\* The filter-set classes of the model.
\*   UserFilter, TaskFilter: tests/graphql_objects.py
\*   CustomRenamed: test_graphql_operators_renaming (ne renamed)
\*   CustomNoEmpty: test_error_with_not_found_operator (eq renamed)
\*   F: test_number_filter_fields, a subclass of UserFilter
\*   StatusFilter: FilterSet with fields = {'status': [...]} for User
FilterSetClasses ==
    {"UserFilter", "TaskFilter", "CustomRenamed", "CustomNoEmpty", "F",
     "StatusFilter", "FilterAliasedResolveInfo"}

\* cls.GRAPHQL_EXPRESSION_NAMES after class definition
ExpressionNames(c) ==
    CASE c \in {"UserFilter", "F", "FilterAliasedResolveInfo"} ->
            Append(GRAPHQL_EXPRESSION_NAMES,
                   [expr |-> ZERO, name |-> <<"eq", "zero">>])
      [] c = "CustomRenamed" ->
            Renamed(GRAPHQL_EXPRESSION_NAMES, NE,
                    <<"i", "newer", "asked", "for", "this">>)
      [] c = "CustomNoEmpty" ->
            Renamed(GRAPHQL_EXPRESSION_NAMES, EQ, <<"equal">>)
      [] OTHER -> GRAPHQL_EXPRESSION_NAMES

\* the keys of cls.GRAPHQL_EXPRESSION_NAMES
ExpressionsOf ==
    [c \in FilterSetClasses |->
        {ExpressionNames(c)[i].expr : i \in 1..Len(ExpressionNames(c))}]

Expressions(c) == ExpressionsOf[c]

\* cls.GRAPHQL_EXPRESSION_NAMES[op]
RenderName(c, op) ==
    LET t == ExpressionNames(c)
        i == CHOOSE j \in 1..Len(t) : t[j].expr = op
    IN  t[i].name

(***************************************************************************)
(* FilterSet._generate_filter_fields: the key of one (field, operator)      *)
(***************************************************************************)
generate_filter_key(c, field_name, op) ==
    LET graphql_name == RenderName(c, op)
    IN  IF graphql_name # <<>> THEN field_name \o graphql_name
        ELSE field_name

(***************************************************************************)
(* FilterSet._split_graphql_field                                          *)
(***************************************************************************)
\* the table is used in dict order
Unsorted(table) == table

RECURSIVE SortedByLen(_)
\* sorted(items, key=lambda x: -len(x[1])): stable, longest name first
SortedByLen(table) ==
    IF table = <<>> THEN <<>>
    ELSE LET rest == SortedByLen(SubSeq(table, 1, Len(table) - 1))
             e == table[Len(table)]
             front == SelectSeq(rest, LAMBDA x : NameLen(x.name) >= NameLen(e.name))
             back == SelectSeq(rest, LAMBDA x : NameLen(x.name) < NameLen(e.name))
         IN  front \o <<e>> \o back

\* the sorted table of each class (the registries are final once the class
\* is defined)
SortedNames == [c \in FilterSetClasses |-> SortedByLen(ExpressionNames(c))]

expression_to_name(c) == SortedNames[c]

NoName == <<>>
NoSplit == [field |-> NoName, expression |-> "", error |-> ""]
OperatorNotFound == "KeyError: Operator not found"

RECURSIVE SplitLoop(_, _, _, _)
SplitLoop(table, i, graphql_field, empty_expr) ==
    IF i > Len(table)
    THEN IF empty_expr # ""
         THEN [field |-> graphql_field, expression |-> empty_expr, error |-> ""]
         ELSE [field |-> graphql_field, expression |-> "",
               error |-> OperatorNotFound]
    ELSE IF table[i].name = <<>>
         THEN SplitLoop(table, i + 1, graphql_field, table[i].expr)
    ELSE IF EndsWith(graphql_field, table[i].name)
         THEN [field |-> StripSuffix(graphql_field, table[i].name),
               expression |-> table[i].expr, error |-> ""]
    ELSE SplitLoop(table, i + 1, graphql_field, empty_expr)

split_graphql_field(c, graphql_field) ==
    SplitLoop(expression_to_name(c), 1, graphql_field, "")

(***************************************************************************)
(* The mapped classes the filter-sets are bound to (tests/models.py).      *)
(* Descriptors(m) is inspect(m).all_orm_descriptors in declaration order.  *)
(* Task also declares a scalar relationship lead_assignment to Assignment  *)
(* and the proxy lead_user = association_proxy('lead_assignment', 'user'), *)
(* next to users = association_proxy('assignments', 'user').  Person, with *)
(* the scalar relationships address and address1 to Address, and TestModel *)
(* are further mapped classes a filter-set is declared over.               *)
(***************************************************************************)
Column(k) ==
    [key |-> k, kind |-> "column", target |-> "", uselist |-> FALSE,
     target_collection |-> NoName, value_attr |-> NoName]

Relationship(k, related, uselist) ==
    [key |-> k, kind |-> "relationship", target |-> related,
     uselist |-> uselist, target_collection |-> NoName, value_attr |-> NoName]

\* a hybrid_property
Hybrid(k) ==
    [key |-> k, kind |-> "hybrid", target |-> "", uselist |-> FALSE,
     target_collection |-> NoName, value_attr |-> NoName]

AssociationProxy(k, target_collection, value_attr, target_class) ==
    [key |-> k, kind |-> "proxy", target |-> target_class, uselist |-> FALSE,
     target_collection |-> target_collection, value_attr |-> value_attr]

Descriptors(m) ==
    CASE m = "User" ->
            << Column(<<"id">>), Column(<<"username">>),
               Column(<<"balance">>), Column(<<"is", "active">>),
               Relationship(<<"assignments">>, "Assignment", TRUE),
               Column(<<"status">>),
               Hybrid(<<"username", "hybrid", "property">>),
               Relationship(<<"memberships">>, "Membership", TRUE) >>
      [] m = "Membership" ->
            << Column(<<"id">>), Column(<<"is", "moderator">>) >>
      [] m = "Assignment" ->
            << Relationship(<<"task">>, "Task", FALSE),
               Relationship(<<"user">>, "User", FALSE),
               Column(<<"active">>) >>
      [] m = "Task" ->
            << Column(<<"id">>), Column(<<"name">>),
               Relationship(<<"assignments">>, "Assignment", TRUE),
               AssociationProxy(<<"users">>, <<"assignments">>, <<"user">>,
                                "Assignment"),
               Relationship(<<"status">>, "Status", FALSE),
               AssociationProxy(<<"status", "name">>, <<"status">>, <<"name">>,
                                "Status"),
               Relationship(<<"lead", "assignment">>, "Assignment", FALSE),
               AssociationProxy(<<"lead", "user">>, <<"lead", "assignment">>,
                                <<"user">>, "Assignment") >>
      [] m = "Status" -> << Column(<<"id">>), Column(<<"name">>) >>
      [] m = "TestModel" -> << Column(<<"id">>), Column(<<"text">>) >>
      [] m = "Person" ->
            << Column(<<"id">>), Relationship(<<"address">>, "Address", FALSE),
               Relationship(<<"address1">>, "Address", FALSE) >>
      [] m = "Address" -> << Column(<<"id">>), Column(<<"city">>) >>
      [] OTHER -> <<>>

\* hasattr(model, name)
HasAttr(m, name) == \E i \in 1..Len(Descriptors(m)) : Descriptors(m)[i].key = name

\* the descriptor behind getattr(model, name)
Attr(m, name) ==
    Descriptors(m)[CHOOSE i \in 1..Len(Descriptors(m)) : Descriptors(m)[i].key = name]

(***************************************************************************)
(* Class definition: FilterSet.__init_subclass_with_meta__                 *)
(*                                                                         *)
(* A dict is a sequence of records in insertion order, each with its key   *)
(* in the field `key` (the render names keep the field `expr`).  A list    *)
(* object that more than one dict can hold is named by the class whose     *)
(* EXTRA_ALLOWED_FILTERS declares it.                                      *)
(***************************************************************************)
\* `key in d`
HasEntry(d, k) == \E i \in 1..Len(d) : d[i].key = k

\* d[key]
Get(d, k) == d[CHOOSE i \in 1..Len(d) : d[i].key = k]

\* d[key] = value: an existing key keeps its position
Put(d, e) ==
    IF HasEntry(d, e.key)
    THEN [i \in 1..Len(d) |-> IF d[i].key = e.key THEN e ELSE d[i]]
    ELSE Append(d, e)

\* the elements of a list
Elements(list) == {list[i] : i \in 1..Len(list)}

(***************************************************************************)
(* The column type classes of sqlalchemy.types and of the tests            *)
(***************************************************************************)
\* the base class of a type class; every class ends at object
TypeBase(t) ==
    CASE t = "object" -> ""
      [] t = "TypeEngine" -> "object"
      [] t = "SmallInteger" -> "Integer"
      [] t = "BigInteger" -> "Integer"
      [] t = "NewInt" -> "Integer"
      [] t = "Enum" -> "String"
      [] t = "Unicode" -> "String"
      [] t = "NVARCHAR" -> "Unicode"
      [] t = "MyNVARCHAR" -> "NVARCHAR"
      [] t = "Float" -> "Numeric"
      [] OTHER -> "TypeEngine"

RECURSIVE issubclass(_, _)
issubclass(t, u) ==
    IF t = u THEN TRUE
    ELSE IF TypeBase(t) = "" THEN FALSE
    ELSE issubclass(TypeBase(t), u)

\* the ancestors of a type class, nearest first, the class itself included
RECURSIVE Ancestors(_)
Ancestors(t) == IF t = "" THEN <<>> ELSE <<t>> \o Ancestors(TypeBase(t))

(***************************************************************************)
(* The registries of FilterSet (lines 158-267)                             *)
(***************************************************************************)
\* one entry of ALLOWED_FILTERS or of EXTRA_ALLOWED_FILTERS; owner is 0 for
\* a list only this dict holds, else the class whose EXTRA_ALLOWED_FILTERS
\* holds the list object
Allowed(t, ops) == [key |-> t, owner |-> 0, ops |-> ops]

Orderable == <<EQ, LT, LTE, GT, GTE, NE, IN_, NOT_IN, RANGE>>
Textual == <<EQ, NE, LIKE, ILIKE, IN_, NOT_IN>>
Plain == <<EQ, NE, IN_, NOT_IN>>

ALLOWED_FILTERS(tsvector) ==
    << Allowed("Boolean", <<EQ, NE>>),
       Allowed("Date", Orderable),
       Allowed("Time", Orderable),
       Allowed("DateTime", Orderable),
       Allowed("String", Textual),
       Allowed(tsvector, Textual),
       Allowed("Integer", Orderable),
       Allowed("Numeric", Orderable),
       Allowed("UUID", Plain),
       Allowed("INET", Plain),
       Allowed("CIDR", Plain),
       Allowed("JSON", Plain),
       Allowed("HSTORE", Plain),
       Allowed("ARRAY", <<EQ, NE, IN_, NOT_IN, LT, LTE, GT, GTE, CONTAINS,
                          CONTAINED_BY, OVERLAP>>) >>

\* the keys of FilterSet.FILTER_FUNCTIONS
FilterFunctionKeys ==
    {EQ, NE, LIKE, ILIKE, IS_NULL, IN_, NOT_IN, LT, LTE, GT, GTE, RANGE,
     CONTAINS, CONTAINED_BY, OVERLAP}

\* the keys of FilterSet.FILTER_OBJECT_TYPES
FilterObjectTypeKeys == {AND, OR, NOT, IS_NULL, RANGE, IN_, NOT_IN}

\* the keys of FilterSet.DESCRIPTIONS
DescriptionKeys == FilterFunctionKeys \cup {AND, OR, NOT}

\* the class object of FilterSet itself
FilterSet(tsvector) ==
    [name |-> "FilterSet", base |-> 0, abstract |-> TRUE, declared |-> <<>>,
     EXTRA_EXPRESSIONS |-> <<>>, EXTRA_ALLOWED_FILTERS |-> <<>>,
     GRAPHQL_EXPRESSION_NAMES |-> GRAPHQL_EXPRESSION_NAMES,
     ALLOWED_FILTERS |-> ALLOWED_FILTERS(tsvector),
     FILTER_FUNCTIONS |-> FilterFunctionKeys,
     FILTER_OBJECT_TYPES |-> FilterObjectTypeKeys,
     DESCRIPTIONS |-> DescriptionKeys,
     model |-> "", fields |-> <<>>, custom_filters |-> {}]

\* the class object the class statement creates before __init_subclass__
\* runs: what the body does not assign is found on the base
ClassObject(base, body) ==
    [name |-> body.name, base |-> body.base, abstract |-> body.abstract,
     declared |-> body.declared,
     EXTRA_EXPRESSIONS |-> body.EXTRA_EXPRESSIONS,
     EXTRA_ALLOWED_FILTERS |-> body.EXTRA_ALLOWED_FILTERS,
     GRAPHQL_EXPRESSION_NAMES |->
        IF "GRAPHQL_EXPRESSION_NAMES" \in body.own
        THEN body.GRAPHQL_EXPRESSION_NAMES ELSE base.GRAPHQL_EXPRESSION_NAMES,
     ALLOWED_FILTERS |->
        IF "ALLOWED_FILTERS" \in body.own
        THEN body.ALLOWED_FILTERS ELSE base.ALLOWED_FILTERS,
     FILTER_FUNCTIONS |-> base.FILTER_FUNCTIONS,
     FILTER_OBJECT_TYPES |-> base.FILTER_OBJECT_TYPES,
     DESCRIPTIONS |-> base.DESCRIPTIONS,
     model |-> base.model, fields |-> base.fields,
     custom_filters |-> base.custom_filters]

\* cls.__mro__ reversed, FilterSet first (the classes above FilterSet declare
\* no EXTRA_* attribute and no input field)
RECURSIVE ReversedMro(_, _)
ReversedMro(cs, n) == IF n = 0 THEN <<>> ELSE Append(ReversedMro(cs, cs[n].base), n)

\* the list object an entry of ALLOWED_FILTERS holds
ListOf(cs, entry) ==
    IF entry.owner = 0 THEN entry.ops
    ELSE Get(cs[entry.owner].EXTRA_ALLOWED_FILTERS, entry.key).ops

\* lines 287-295: the two dicts merged over the classes of the MRO; a value
\* of extra_allowed_filters is the list object of the class that declares it
RECURSIVE UpdateAll(_, _, _)
UpdateAll(d, items, i) ==
    IF i > Len(items) THEN d ELSE UpdateAll(Put(d, items[i]), items, i + 1)

\* the entries of klass.EXTRA_ALLOWED_FILTERS as references to its lists
OwnedBy(items, n) ==
    [i \in 1..Len(items) |-> [key |-> items[i].key, owner |-> n, ops |-> <<>>]]

RECURSIVE extra_expressions(_, _, _)
extra_expressions(cs, mro, i) ==
    IF i = 0 THEN <<>>
    ELSE UpdateAll(extra_expressions(cs, mro, i - 1),
                   cs[mro[i]].EXTRA_EXPRESSIONS, 1)

RECURSIVE extra_allowed_filters(_, _, _)
extra_allowed_filters(cs, mro, i) ==
    IF i = 0 THEN <<>>
    ELSE UpdateAll(extra_allowed_filters(cs, mro, i - 1),
                   OwnedBy(cs[mro[i]].EXTRA_ALLOWED_FILTERS, mro[i]), 1)

(***************************************************************************)
(* FilterSet._register_extra (lines 327-369); cs[n] is cls                 *)
(***************************************************************************)
\* deepcopy(cls.ALLOWED_FILTERS): every list becomes a list of this dict
DeepCopied(cs, allowed) ==
    [i \in 1..Len(allowed) |-> Allowed(allowed[i].key, ListOf(cs, allowed[i]))]

\* lines 339-353: the registries are copied, then
\* cls.ALLOWED_FILTERS.update(extra_allowed_filters) stores the list objects
Copied(cs, n, extra_allowed) ==
    [cs EXCEPT ![n].ALLOWED_FILTERS = UpdateAll(DeepCopied(cs, @), extra_allowed, 1)]

\* cls.GRAPHQL_EXPRESSION_NAMES.update({key: graphql_name})
SetName(table, expr, name) ==
    IF \E i \in 1..Len(table) : table[i].expr = expr
    THEN Renamed(table, expr, name)
    ELSE Append(table, [expr |-> expr, name |-> name])

\* lines 360-363 on a list object: append the key unless it is there
WithKey(list, k) == IF k \in Elements(list) THEN list ELSE Append(list, k)

\* the list a dict holds for the type, with the key appended
AppendedTo(d, sqla_type, k) ==
    Put(d, Allowed(sqla_type, WithKey(Get(d, sqla_type).ops, k)))

\* lines 358-365: all_expr is the list cls.ALLOWED_FILTERS holds for the
\* type, or a new one; the key is appended to that list object in place
AppendExpression(cs, n, sqla_type, k) ==
    IF ~HasEntry(cs[n].ALLOWED_FILTERS, sqla_type)
    THEN [cs EXCEPT ![n].ALLOWED_FILTERS = Append(@, Allowed(sqla_type, <<k>>))]
    ELSE IF Get(cs[n].ALLOWED_FILTERS, sqla_type).owner = 0
    THEN [cs EXCEPT ![n].ALLOWED_FILTERS = AppendedTo(@, sqla_type, k)]
    ELSE [cs EXCEPT ![Get(cs[n].ALLOWED_FILTERS, sqla_type).owner]
                        .EXTRA_ALLOWED_FILTERS = AppendedTo(@, sqla_type, k)]

\* lines 367-369: inside the loop over for_types
Registered(cs, n, x) ==
    [cs EXCEPT ![n].FILTER_FUNCTIONS = @ \cup {x.key},
               ![n].FILTER_OBJECT_TYPES = @ \cup {x.key},
               ![n].DESCRIPTIONS = @ \cup {x.key}]

RECURSIVE ForTypesLoop(_, _, _, _)
\* lines 357-369: `for sqla_type in for_types`
ForTypesLoop(cs, n, x, i) ==
    IF i > Len(x.for_types) THEN cs
    ELSE ForTypesLoop(
             Registered(AppendExpression(cs, n, x.for_types[i], x.key), n, x),
             n, x, i + 1)

\* line 355
Named(cs, n, x) ==
    [cs EXCEPT ![n].GRAPHQL_EXPRESSION_NAMES = SetName(@, x.key, x.graphql_name)]

RECURSIVE ExpressionsLoop(_, _, _, _)
\* lines 347-369: `for key, data in extra_expressions.items()`
ExpressionsLoop(cs, n, extra, i) ==
    IF i > Len(extra) THEN cs
    ELSE ExpressionsLoop(ForTypesLoop(Named(cs, n, extra[i]), n, extra[i], 1),
                         n, extra, i + 1)

register_extra(cs, n, extra, extra_allowed) ==
    ExpressionsLoop(Copied(cs, n, extra_allowed), n, extra, 1)

\* lines 285-297
RegisterExtras(cs, n, extra, extra_allowed) ==
    IF extra # <<>> \/ extra_allowed # <<>>
    THEN register_extra(cs, n, extra, extra_allowed)
    ELSE cs

(***************************************************************************)
(* What _get_model_fields_data reads from the mapped classes               *)
(***************************************************************************)
\* model.__tablename__
tablename(m) ==
    CASE m = "User" -> <<"user">>
      [] m = "Assignment" -> <<"task", "assignments">>
      [] m = "Task" -> <<"task">>
      [] m = "Status" -> <<"status">>
      [] m = "TestModel" -> <<"test">>
      [] m = "Person" -> <<"person">>
      [] m = "Address" -> <<"address">>
      [] OTHER -> <<>>

\* column.type.__class__
ColumnType(m, k) ==
    CASE k = <<"id">> -> IF m = "TestModel" THEN "SmallInteger" ELSE "Integer"
      [] k = <<"balance">> -> "Integer"
      [] k \in {<<"is", "active">>, <<"active">>, <<"is", "moderator">>} ->
            "Boolean"
      [] k = <<"status">> -> "Enum"
      [] k = <<"text">> -> "MyNVARCHAR"
      [] OTHER -> "String"

\* column.nullable
Nullable(m, k) == k \notin {<<"id">>, <<"username">>, <<"is", "moderator">>}

\* the first name in dir(model) that is a proxy with the value_attr and the
\* target_class of the descriptor (lines 594-607); dir() is sorted
ProxyName(m, descr) ==
    IF m = "Task" /\ descr.value_attr = <<"user">> THEN <<"lead", "user">>
    ELSE descr.key

\* the entry _get_model_fields_data makes for one descriptor
FieldData(m, descr) ==
    CASE descr.kind = "hybrid" ->
            [key |-> descr.key, type |-> "None", nullable |-> TRUE,
             related_model |-> ""]
      [] descr.kind = "proxy" ->
            IF Attr(descr.target, descr.value_attr).kind = "relationship"
            THEN [key |-> ProxyName(m, descr), type |-> "relationship",
                  nullable |-> FALSE,
                  related_model |-> Attr(descr.target, descr.value_attr).target]
            ELSE [key |-> ProxyName(m, descr),
                  type |-> ColumnType(descr.target, descr.value_attr),
                  nullable |-> Nullable(descr.target, descr.value_attr),
                  related_model |-> ""]
      [] descr.kind = "relationship" ->
            [key |-> descr.key, type |-> "relationship", nullable |-> FALSE,
             related_model |-> descr.target]
      [] OTHER ->
            [key |-> descr.key, type |-> ColumnType(m, descr.key),
             nullable |-> Nullable(m, descr.key), related_model |-> ""]

RECURSIVE get_model_fields_data(_, _, _)
\* lines 565-652: the descriptors whose name is in only_fields, in the order
\* of inspected.all_orm_descriptors
get_model_fields_data(m, only_fields, i) ==
    IF i = 0 THEN <<>>
    ELSE IF HasEntry(only_fields, FieldData(m, Descriptors(m)[i]).key)
    THEN Put(get_model_fields_data(m, only_fields, i - 1),
             FieldData(m, Descriptors(m)[i]))
    ELSE get_model_fields_data(m, only_fields, i - 1)

(***************************************************************************)
(* FilterSet._recursively_generate_filters (lines 699-817)                 *)
(*                                                                         *)
(* A field spec is a dict of entries: kind "all" for the ALL sentinel,     *)
(* "list" with the operators in ops, "dict" with the spec of the related   *)
(* model in sub.  The generator state g holds the fields of the level,     *)
(* FilterSet.AUTO_TYPE_NAMES, the names of the types created and the       *)
(* exception that ended the definition.  parents is the list joined with   *)
(* '_', a name like every other.                                           *)
(***************************************************************************)
All(k) == [key |-> k, kind |-> "all", ops |-> <<>>, sub |-> <<>>]
Listed(k, ops) == [key |-> k, kind |-> "list", ops |-> ops, sub |-> <<>>]
Nested(k, sub) == [key |-> k, kind |-> "dict", ops |-> <<>>, sub |-> sub]

UnsupportedFieldType == "ValueError: Unsupported field type for automatic filter binding"
UnsupportedColumnType == "KeyError: Unsupported column type. Hint: use EXTRA_ALLOWED_FILTERS."
ModelNotSpecified == "AttributeError: Model not specified"

\* a graphene type: an input field generated for an operator, a list of
\* non-null, or a named input object type
InputType(kind, of) == [kind |-> kind, of |-> of]

Generated(fields, names, types, error) ==
    [fields |-> fields, names |-> names, types |-> types, error |-> error,
     type |-> NoName]

Failed(g, error) == [g EXCEPT !.error = error]

RECURSIVE SubclassLoop(_, _, _, _)
\* lines 752-755: `for type_, exprs in filters_map.items()`
SubclassLoop(cs, n, type_class, i) ==
    IF i > Len(cs[n].ALLOWED_FILTERS) THEN [found |-> FALSE, ops |-> <<>>]
    ELSE IF issubclass(type_class, cs[n].ALLOWED_FILTERS[i].key)
    THEN [found |-> TRUE, ops |-> ListOf(cs, cs[n].ALLOWED_FILTERS[i])]
    ELSE SubclassLoop(cs, n, type_class, i + 1)

\* lines 748-760: the operators of the ALL sentinel for a column type
allowed_expressions(cs, n, type_class) ==
    IF HasEntry(cs[n].ALLOWED_FILTERS, type_class)
    THEN [found |-> TRUE,
          ops |-> ListOf(cs, Get(cs[n].ALLOWED_FILTERS, type_class))]
    ELSE SubclassLoop(cs, n, type_class, 1)

\* lines 762-763 altered: is_null is appended whether or not the column is
\* nullable
expressions_with_is_null(lookup, nullable) == Append(lookup.ops, IS_NULL)

\* lines 742-763: the expressions of a column
expressions_of(lookup, nullable) ==
    IF nullable THEN Append(lookup.ops, IS_NULL) ELSE lookup.ops

\* cls.GRAPHQL_EXPRESSION_NAMES[op], a table given
NameIn(table, op) == table[CHOOSE i \in 1..Len(table) : table[i].expr = op].name

HasName(table, op) == \E i \in 1..Len(table) : table[i].expr = op

\* lines 678-681
filter_key(table, field_name, op) ==
    IF NameIn(table, op) # <<>> THEN field_name \o NameIn(table, op)
    ELSE field_name

RECURSIVE generate_filter_fields(_, _, _, _, _)
\* lines 654-697 followed by fields.update (line 769), from expression i on
generate_filter_fields(g, table, expressions, field_name, i) ==
    IF i > Len(expressions) THEN g
    ELSE IF ~HasName(table, expressions[i])
    THEN Failed(g, "KeyError: " \o expressions[i])
    ELSE generate_filter_fields(
             [g EXCEPT !.fields =
                 Put(@, [key |-> filter_key(table, field_name, expressions[i]),
                         type |-> InputType("field", <<expressions[i]>>)])],
             table, expressions, field_name, i + 1)

\* lines 741-776: the filters of one column or hybrid attribute
column_filters(cs, n, g, field, spec) ==
    IF spec.kind # "all"
    THEN generate_filter_fields(g, cs[n].GRAPHQL_EXPRESSION_NAMES, spec.ops,
                                field.key, 1)
    ELSE IF field.type = "None"
    THEN Failed(g, UnsupportedFieldType)
    ELSE IF ~allowed_expressions(cs, n, field.type).found
    THEN Failed(g, UnsupportedColumnType)
    ELSE generate_filter_fields(g, cs[n].GRAPHQL_EXPRESSION_NAMES,
             expressions_of(allowed_expressions(cs, n, field.type),
                            field.nullable),
             field.key, 1)

\* f"{auto_type_name}{FilterSet.AUTO_TYPE_NAMES[auto_type_name]}"
Suffixed(name, count) ==
    SubSeq(name, 1, Len(name) - 1) \o <<name[Len(name)] \o ToString(count)>>

\* f"{auto_type_name}_{op}"
OperandTypes(name) == <<name \o <<AND>>, name \o <<OR>>, name \o <<NOT>>>>

\* lines 785-793: the name of the type of this level
auto_type_name(names, joined) ==
    IF HasEntry(names, joined)
    THEN Suffixed(joined, Get(names, joined).count + 1)
    ELSE joined

\* lines 786-793: FilterSet.AUTO_TYPE_NAMES afterwards
Counted(names, joined) ==
    IF HasEntry(names, joined)
    THEN Put(names, [key |-> joined, count |-> Get(names, joined).count + 1])
    ELSE Append(names, [key |-> joined, count |-> 0])

\* lines 778-815: the types of a nested level are created
LevelTypes(g, parents, nested) ==
    IF g.error # "" \/ ~nested THEN g
    ELSE [g EXCEPT
            !.names = Counted(@, parents),
            !.types = @ \o OperandTypes(auto_type_name(g.names, parents))
                        \o <<auto_type_name(g.names, parents)>>,
            !.type = auto_type_name(g.names, parents)]

\* lines 730-738 seen from the parent: fields[field_name] becomes the field
\* of the nested type, the level's own fields stay those of the parent
AfterLevel(g, sub, field_name) ==
    [fields |-> IF sub.error # "" THEN g.fields
                ELSE Put(g.fields, [key |-> field_name,
                                    type |-> InputType("type", sub.type)]),
     names |-> sub.names, types |-> sub.types, error |-> sub.error,
     type |-> NoName]

RECURSIVE recursively_generate_filters(_, _, _, _, _, _, _)
RECURSIVE ModelFieldsLoop(_, _, _, _, _, _, _)

\* lines 727-776: `for field_name, field_object in model_fields.items()`
ModelFieldsLoop(cs, n, g, model_fields, field_filters, parents, i) ==
    IF i > Len(model_fields) \/ g.error # "" THEN g
    ELSE IF model_fields[i].type = "relationship"
    THEN ModelFieldsLoop(cs, n,
             AfterLevel(g,
                 recursively_generate_filters(cs, n,
                     Generated(<<>>, g.names, g.types, ""),
                     model_fields[i].related_model,
                     Get(field_filters, model_fields[i].key).sub,
                     parents \o model_fields[i].key, TRUE),
                 model_fields[i].key),
             model_fields, field_filters, parents, i + 1)
    ELSE ModelFieldsLoop(cs, n,
             column_filters(cs, n, g, model_fields[i],
                            Get(field_filters, model_fields[i].key)),
             model_fields, field_filters, parents, i + 1)

recursively_generate_filters(cs, n, g, model, field_filters, parents, nested) ==
    LevelTypes(
        ModelFieldsLoop(cs, n, g,
            get_model_fields_data(model, field_filters, Len(Descriptors(model))),
            field_filters, parents, 1),
        parents, nested)

(***************************************************************************)
(* FilterSet.__init_subclass_with_meta__ (lines 272-325)                   *)
(***************************************************************************)
\* a class statement: the attributes its body assigns.  own names the
\* registries the body assigns itself; declared are its input fields
ClassBody(name, base) ==
    [name |-> name, base |-> base, abstract |-> FALSE, declared |-> <<>>,
     own |-> {}, GRAPHQL_EXPRESSION_NAMES |-> <<>>, ALLOWED_FILTERS |-> <<>>,
     EXTRA_EXPRESSIONS |-> <<>>, EXTRA_ALLOWED_FILTERS |-> <<>>,
     model |-> "", fields |-> <<>>]

Outcome(cs, names, types, error) ==
    [classes |-> cs, names |-> names, types |-> types, error |-> error]

\* cls.FILTER_OBJECT_TYPES[op](cls, False, doc) for and, or, not (lines 229-231)
FILTER_OBJECT_TYPES(op, name) ==
    IF op \in {AND, OR} THEN InputType("List(NonNull)", <<name>>)
    ELSE InputType("type", <<name>>)

\* lines 303-309: the fields of and, or, not
BooleanFields(c) ==
    [i \in 1..3 |->
        [key |-> NameIn(c.GRAPHQL_EXPRESSION_NAMES, <<AND, OR, NOT>>[i]),
         type |-> FILTER_OBJECT_TYPES(<<AND, OR, NOT>>[i], c.name)]]

\* the input fields a class body declares, as dict items
DeclaredFields(c) ==
    [i \in 1..Len(c.declared) |->
        [key |-> c.declared[i], type |-> InputType("declared", <<c.name>>)]]

RECURSIVE YankedFields(_, _, _)
\* graphene's InputObjectType.__init_subclass_with_meta__: the fields yanked
\* from base.__dict__ for base in reversed(cls.__mro__)
YankedFields(cs, mro, i) ==
    IF i = 0 THEN <<>>
    ELSE UpdateAll(YankedFields(cs, mro, i - 1), DeclaredFields(cs[mro[i]]), 1)

\* the keys of a dict
Keys(d) == {d[i].key : i \in 1..Len(d)}

\* lines 311-325: _meta.fields and cls._custom_filters
WithMetaFields(c, filters_fields, fields) ==
    [c EXCEPT !.fields = fields,
              !.custom_filters = Keys(fields) \ Keys(filters_fields)]

\* lines 303-325, filters_fields being complete
Finished(cs, n, filters_fields) ==
    [cs EXCEPT ![n] =
        WithMetaFields(@, filters_fields,
            UpdateAll(filters_fields,
                      YankedFields(cs, ReversedMro(cs, n),
                                   Len(ReversedMro(cs, n))), 1))]

\* lines 299-325 after the default filters were generated into g
WithFields(cs, n, g) ==
    IF g.error # "" THEN Outcome(cs, g.names, g.types, g.error)
    ELSE Outcome(Finished(cs, n, UpdateAll(g.fields, BooleanFields(cs[n]), 1)),
                 g.names, g.types, "")

\* lines 299-301
default_filters(cs, n, body, names, types) ==
    IF body.model # ""
    THEN recursively_generate_filters(cs, n, Generated(<<>>, names, types, ""),
             body.model, body.fields, tablename(body.model), FALSE)
    ELSE Generated(<<>>, names, types, "")

\* lines 299-325, the extras being registered
Completed(cs, n, body, names, types) ==
    WithFields(cs, n, default_filters(cs, n, body, names, types))

init_subclass_with_meta(cs, n, body, names, types) ==
    IF body.model = "" /\ body.fields # <<>>
    THEN Outcome(cs, names, types, ModelNotSpecified)
    ELSE Completed(
             RegisterExtras([cs EXCEPT ![n].model = body.model], n,
                 extra_expressions(cs, ReversedMro(cs, n),
                                   Len(ReversedMro(cs, n))),
                 extra_allowed_filters(cs, ReversedMro(cs, n),
                                       Len(ReversedMro(cs, n)))),
             n, body, names, types)

\* an exception leaves the class name unbound; what the definition did to
\* other objects stays done
Bound(o) ==
    IF o.error # "" THEN [o EXCEPT !.classes = SubSeq(@, 1, Len(@) - 1)] ELSE o

\* the class statement: an abstract class does not reach
\* __init_subclass_with_meta__
class_statement(cs, body, names, types) ==
    IF body.abstract
    THEN Outcome(Append(cs, ClassObject(cs[body.base], body)), names, types, "")
    ELSE Bound(init_subclass_with_meta(
                   Append(cs, ClassObject(cs[body.base], body)),
                   Len(cs) + 1, body, names, types))

(***************************************************************************)
(* The filter-sets of tests/graphql_objects.py and of the tests            *)
(***************************************************************************)
\* tests/graphql_objects.py lines 17-29
BaseFilter ==
    [ClassBody("BaseFilter", 1) EXCEPT
        !.abstract = TRUE,
        !.EXTRA_EXPRESSIONS =
            << [key |-> ZERO, graphql_name |-> <<"eq", "zero">>,
                for_types |-> <<"Integer">>] >>]

\* tests/graphql_objects.py lines 32-43
USER_FILTER_FIELDS ==
    << Listed(<<"id">>, <<EQ>>),
       Listed(<<"username">>, <<EQ, NE, IN_, ILIKE>>),
       Listed(<<"balance">>, <<EQ, NE, GT, LT, RANGE, IS_NULL>>),
       Listed(<<"is", "active">>, <<EQ, NE>>),
       Listed(<<"username", "hybrid", "property">>, <<EQ, NE, IN_>>),
       Nested(<<"assignments">>,
              << Nested(<<"task">>, << Listed(<<"name">>, <<EQ>>),
                                        Listed(<<"id">>, <<EQ>>) >>),
                 Listed(<<"active">>, <<EQ>>) >>),
       Listed(<<"status">>, <<EQ>>) >>

\* tests/graphql_objects.py lines 46-92; the base is the second class of
\* the module
UserFilter ==
    [ClassBody("UserFilter", 2) EXCEPT
        !.declared = << <<"is", "admin">>, <<"is", "moderator">>,
                        <<"member", "of", "group">> >>,
        !.model = "User",
        !.fields = USER_FILTER_FIELDS]

\* test_number_filter_fields: class F(UserFilter)
F ==
    [ClassBody("F", 3) EXCEPT
        !.model = "User",
        !.fields = << Listed(<<"username">>, <<EQ, IN_, ILIKE>>),
                      Listed(<<"balance">>, <<NE, GT, LT, RANGE, IS_NULL>>) >>]

\* a filter-set with the ALL sentinel for the Enum column of User
StatusFilter ==
    [ClassBody("StatusFilter", 1) EXCEPT
        !.model = "User", !.fields = << All(<<"status">>) >>]

\* tests/test_deprecated_context_types.py: a subclass of UserFilter without
\* a Meta, whose is_moderator_filter takes the deprecated path
FilterAliasedResolveInfo == ClassBody("FilterAliasedResolveInfo", 3)

RECURSIVE Statements(_, _, _)
\* the class statements of a module executed in order
Statements(o, bodies, i) ==
    IF i > Len(bodies) THEN o
    ELSE Statements(class_statement(o.classes, bodies[i], o.names, o.types),
                    bodies, i + 1)

\* the classes after the import of tests/graphql_objects.py and the two
\* class statements above; sqlalchemy_utils is installed
GraphqlObjects ==
    Statements(Outcome(<<FilterSet("TSVectorType")>>, <<>>, <<>>, ""),
               <<BaseFilter, UserFilter, F, StatusFilter,
                 FilterAliasedResolveInfo>>, 1).classes

\* the class object of a name
ClassNamed(c) ==
    GraphqlObjects[CHOOSE n \in 1..Len(GraphqlObjects) :
                      GraphqlObjects[n].name = c]

IsDefined(c) == \E n \in 1..Len(GraphqlObjects) : GraphqlObjects[n].name = c

\* cls.model
ModelOf(c) ==
    CASE c = "TaskFilter" -> "Task"
      [] c = "FilterAliasedResolveInfo" -> ""
      [] OTHER -> "User"

\* no key is custom
no_custom_filters(c) == {}

\* cls._custom_filters
custom_filters(c) == IF IsDefined(c) THEN ClassNamed(c).custom_filters ELSE {}

(***************************************************************************)
(* Predicates of the query layer                                           *)
(***************************************************************************)
NoAttr == [model |-> "", key |-> NoName]

NoPred ==
    [op |-> "none", model |-> "", attr |-> NoName, val |-> 0, val2 |-> 0,
     args |-> <<>>]

\* a comparison of one model attribute
Compare(op, m, attr, v, v2) ==
    [op |-> op, model |-> m, attr |-> attr, val |-> v, val2 |-> v2, args |-> <<>>]

Clause(op, args) ==
    [op |-> op, model |-> "", attr |-> NoName, val |-> 0, val2 |-> 0, args |-> args]

\* sqlalchemy.and_: one clause is returned as it is, none gives an empty
\* conjunction that renders as nothing
and_(clauses) == IF Len(clauses) = 1 THEN clauses[1] ELSE Clause("and", clauses)

\* the operands are conjoined
or_conjoined(clauses) ==
    IF Len(clauses) = 1 THEN clauses[1] ELSE Clause("and", clauses)

\* sqlalchemy.or_
or_(clauses) == IF Len(clauses) = 1 THEN clauses[1] ELSE Clause("or", clauses)

\* sqlalchemy.not_
not_(clause) == Clause("not", <<clause>>)

\* parent_attr.any(criterion) / parent_attr.has(criterion)
Exists(expression_type, parent_attr, criterion) ==
    [op |-> expression_type, model |-> parent_attr.model, attr |-> parent_attr.key,
     val |-> 0, val2 |-> 0, args |-> <<criterion>>]

\* FilterSet.FILTER_FUNCTIONS[expression](getattr(model, field), value)
\* the value of an entry is (val, val2): a scalar val, the range mapping
\* {begin: val, end: val2}, or the list [val, val2]
FILTER_FUNCTIONS(expression, m, field, e) ==
    CASE expression = EQ -> Compare("eq", m, field, e.val, 0)
      [] expression = NE -> not_(Compare("eq", m, field, e.val, 0))
      [] expression = IS_NULL ->
            IF e.val # 0 THEN Compare("is_null", m, field, 0, 0)
            ELSE Compare("is_not_null", m, field, 0, 0)
      [] expression = RANGE -> Compare("between", m, field, e.val, e.val2)
      [] expression \in {IN_, NOT_IN} ->
            Compare(expression, m, field, e.val, e.val2)
      [] OTHER -> Compare(expression, m, field, e.val, 0)

\* the expressions FILTER_FUNCTIONS has a function for
HasFilterFunction(c, expression) ==
    /\ expression \in Expressions(c)
    /\ expression \notin {AND, OR, NOT}

(***************************************************************************)
(* Queries                                                                 *)
(***************************************************************************)
\* session.query(model)
NewQuery(m) == [entity |-> m, where |-> <<>>, joins |-> <<>>]

\* Query.filter(criterion)
QueryFilter(q, criterion) == [q EXCEPT !.where = Append(@, criterion)]

(***************************************************************************)
(* Filter trees: a mapping is the sequence of its entries in dict order.   *)
(*   kind "scalar": value val;  "range": {begin: val, end: val2};          *)
(*   kind "dict": the mapping subs[1];  "dicts": the list of mappings subs *)
(***************************************************************************)
Scalar(k, v) == [key |-> k, kind |-> "scalar", val |-> v, val2 |-> 0, subs |-> <<>>]
Range(k, b, e) == [key |-> k, kind |-> "range", val |-> b, val2 |-> e, subs |-> <<>>]
Dict(k, sub) == [key |-> k, kind |-> "dict", val |-> 0, val2 |-> 0, subs |-> <<sub>>]
Dicts(k, list) == [key |-> k, kind |-> "dicts", val |-> 0, val2 |-> 0, subs |-> list]
\* a list of two scalars
List(k, a, b) == [key |-> k, kind |-> "list", val |-> a, val2 |-> b, subs |-> <<>>]

\* isinstance(value, dict)
IsDict(e) == e.kind \in {"dict", "range"}

(***************************************************************************)
(* FilterSet._translate_many_filter                                        *)
(* The result dict of a level is the sequence of its slots in insertion    *)
(* order (the keys of one mapping are distinct): a slot is either a        *)
(* predicate or a dict (d = TRUE), which the join step filters out.        *)
(* The call returns the threaded query, whether it assigned                *)
(* parent_result[parent] (set) and the assigned predicate p, or the        *)
(* exception it raised.                                                    *)
(***************************************************************************)
NoError == [type |-> "", arg |-> NoName]
Raise(type, arg) == [type |-> type, arg |-> arg]
FieldNotFound == "KeyError: Field not found"

DictSlot == [d |-> TRUE, p |-> NoPred]
PredSlot(p) == [d |-> FALSE, p |-> p]

\* only the predicate of the last key is kept
LastOnly(result) ==
    LET kept == SelectSeq(result, LAMBDA s : ~s.d)
    IN  IF kept = <<>> THEN <<>> ELSE <<kept[Len(kept)].p>>

\* [v for v in result.values() if not isinstance(v, dict)]
NonDict(result) ==
    LET kept == SelectSeq(result, LAMBDA s : ~s.d)
    IN  [i \in 1..Len(kept) |-> kept[i].p]

\* "not" negates each clause instead of their conjunction
join_negating_each(k, clauses) ==
    CASE k = "and" -> and_(clauses)
      [] k = "or" -> or_(clauses)
      [] k = "not" -> and_([i \in 1..Len(clauses) |-> not_(clauses[i])])

\* join_by_map[key](*clauses)
join_by_map(k, clauses) ==
    CASE k = "and" -> and_(clauses)
      [] k = "or" -> or_(clauses)
      [] k = "not" -> not_(and_(clauses))

ADMIN == 0 - 1

\* tests/models.py lines 38-40: the values of StatusEnum, as GraphQL hands
\* them to the resolver
offline == 11
online == 12
StatusEnumValues == {offline, online}

\* StatusEnum(value): the member with the value
StatusEnum(v) == 100 + v

\* the alias cls.aliased(query, element, name=name) returns inside a custom
\* filter: the one the query has joined under the name, else a new object,
\* the serial-th the resolver creates
aliased(q, element, name, serial) ==
    IF \E j \in 1..Len(q.joins) :
          q.joins[j].target = element /\ q.joins[j].name = name
    THEN q.joins[CHOOSE j \in 1..Len(q.joins) :
                    /\ q.joins[j].target = element /\ q.joins[j].name = name
                    /\ \A l \in (j + 1)..Len(q.joins) :
                          ~(q.joins[l].target = element /\ q.joins[l].name = name)]
            .entity
    ELSE Len(q.joins) + serial

\* query.join(alias, onclause)
QueryJoin(q, element, name, alias) ==
    [q EXCEPT !.joins = Append(@, [target |-> element, name |-> name,
                                   entity |-> alias])]

\* UserFilter.is_admin_filter: a bare clause
is_admin_filter(q, e) ==
    [query |-> q, tuple |-> FALSE,
     clause |-> IF e.val # 0 THEN Compare("eq", "User", <<"username">>, ADMIN, 0)
                ELSE Compare("ne", "User", <<"username">>, ADMIN, 0),
     error |-> NoError]

\* UserFilter.is_moderator_filter: the joined query and a clause on the
\* alias, named by val
is_moderator_filter(q, e) ==
    [query |-> QueryJoin(q, "Membership", "is_moderator",
                         aliased(q, "Membership", "is_moderator", 1)),
     tuple |-> TRUE,
     clause |-> Compare(IF e.val # 0 THEN "is_not_null" ELSE "is_null",
                        "Membership", <<"id">>,
                        aliased(q, "Membership", "is_moderator", 1), 0),
     error |-> NoError]

\* the second join of member_of_group_filter
GroupJoined(q, alias) == QueryJoin(q, "Group", "of_group", alias)

\* UserFilter.member_of_group_filter: two joins and a clause on the second
\* alias, named by val2
member_of_group_filter(q, e) ==
    [query |-> GroupJoined(QueryJoin(q, "Membership", "member_of",
                                     aliased(q, "Membership", "member_of", 1)),
                           aliased(q, "Group", "of_group", 2)),
     tuple |-> TRUE,
     clause |-> Compare("eq", "Group", <<"name">>, e.val,
                        aliased(q, "Group", "of_group", 2)),
     error |-> NoError]

\* only a dict context holds the alias cache
aliases_from_dict_only(inf) ==
    IF inf.context = "dict" THEN NoError
    ELSE Raise("RuntimeError", <<"context">>)

\* FilterSet._aliases_from_info: the alias cache of the context, or the
\* RuntimeError of a context that is neither a dict nor has a __dict__
aliases_from_context(inf) ==
    IF inf.context \in {"dict", "object"} THEN NoError
    ELSE Raise("RuntimeError", <<"context">>)

\* the clause True
TRUE_ == Compare("true", "", NoName, 1, 0)

\* tests/test_deprecated_context_types.py:
\* FilterAliasedResolveInfo.is_moderator_filter calls
\* cls.aliased(info, Membership, name='is_moderator') and returns
\* (query, True)
aliased_resolve_info_filter(inf, q, e) ==
    [query |-> q, tuple |-> TRUE, clause |-> TRUE_,
     error |-> aliases_from_context(inf)]

\* getattr(cls, key + '_filter')(info, query, value): the resolvers of
\* tests/graphql_objects.py
custom_filter(c, inf, k, q, e) ==
    CASE k = <<"is", "moderator">> /\ c = "FilterAliasedResolveInfo" ->
            aliased_resolve_info_filter(inf, q, e)
      [] k = <<"is", "moderator">> -> is_moderator_filter(q, e)
      [] k = <<"member", "of", "group">> -> member_of_group_filter(q, e)
      [] OTHER -> is_admin_filter(q, e)

\* the mapping a dict value holds
SubLevel(e) ==
    IF e.kind = "dict" THEN e.subs[1]
    ELSE << Scalar(<<"begin">>, e.val), Scalar(<<"end">>, e.val2) >>

RECURSIVE translate_many_filter(_, _, _, _, _, _, _, _)
RECURSIVE KeysLoop(_, _, _, _, _, _, _, _, _)
RECURSIVE NextKey(_, _, _, _, _, _, _, _, _)
RECURSIVE OperandsLoop(_, _, _, _, _, _, _, _, _)
RECURSIVE NextOperand(_, _, _, _, _, _, _, _, _)
RECURSIVE DescriptorsLoop(_, _, _, _, _, _)
RECURSIVE KeyStep(_, _, _, _, _, _, _)

\* what a recursive call left under the key of its parent: the predicate it
\* stored in parent_result[parent], or the dict of setdefault
Stored(t) ==
    [query |-> t.query,
     slot |-> IF t.set THEN PredSlot(t.p) ELSE DictSlot,
     error |-> t.error]

\* lines 995-1050: the loop over inspected.all_orm_descriptors
DescriptorsLoop(c, inf, q, e, m, i) ==
    IF i > Len(Descriptors(m))
    THEN [query |-> q, slot |-> DictSlot, error |-> NoError]
    ELSE IF Descriptors(m)[i].kind = "relationship"
    THEN IF Descriptors(m)[i].key = e.key
         THEN Stored(translate_many_filter(c, inf, q, SubLevel(e), "and",
                        Descriptors(m)[i].target,
                        [model |-> m, key |-> e.key],
                        IF Attr(m, e.key).uselist THEN "any" ELSE "has"))
         ELSE DescriptorsLoop(c, inf, q, e, m, i + 1)
    ELSE IF Descriptors(m)[i].kind = "proxy"
    THEN IF ~HasAttr(m, e.key)
         THEN [query |-> q, slot |-> DictSlot,
               error |-> Raise("AttributeError", e.key)]
         ELSE IF /\ Attr(m, e.key).kind = "proxy"
                 /\ Attr(m, e.key).value_attr = Descriptors(m)[i].value_attr
                 /\ Attr(m, e.key).target = Descriptors(m)[i].target
         THEN Stored(translate_many_filter(c, inf, q, SubLevel(e), "and",
                        Attr(Descriptors(m)[i].target,
                             Descriptors(m)[i].value_attr).target,
                        [model |-> m, key |-> e.key],
                        IF Attr(m, Descriptors(m)[i].target_collection).uselist
                        THEN "any" ELSE "has"))
         ELSE DescriptorsLoop(c, inf, q, e, m, i + 1)
    ELSE DescriptorsLoop(c, inf, q, e, m, i + 1)

\* lines 941-949 altered: the query a custom filter returns is dropped
CustomStepSameQuery(q, r) ==
    IF r.error.type # ""
    THEN [query |-> q, slot |-> DictSlot, error |-> r.error]
    ELSE [query |-> q, slot |-> PredSlot(r.clause), error |-> NoError]

\* lines 941-949: a custom filter; a returned tuple replaces the query
CustomStep(q, r) ==
    IF r.error.type # ""
    THEN [query |-> q, slot |-> DictSlot, error |-> r.error]
    ELSE [query |-> IF r.tuple THEN r.query ELSE q,
          slot |-> PredSlot(r.clause), error |-> NoError]

\* model_field_type.enum_class of lines 1057-1059, "" when the attribute is
\* not an Enum column bound to an enum class
enum_class(m, field) ==
    IF Attr(m, field).kind = "column" /\ ColumnType(m, field) = "Enum"
    THEN "StatusEnum" ELSE ""

\* lines 1057-1063: the exception enum_class(v) raises for a raw value, ""
\* when every raw value is the value of a member
EnumError(e) ==
    IF e.kind = "range" THEN "TypeError"
    ELSE IF e.kind = "list"
    THEN IF {e.val, e.val2} \subseteq StatusEnumValues THEN "" ELSE "ValueError"
    ELSE IF e.val \in StatusEnumValues THEN "" ELSE "ValueError"

\* lines 1060-1063: value = enum_class(value), element by element for a list
Coerced(e) ==
    IF e.kind = "list"
    THEN [e EXCEPT !.val = StatusEnum(e.val), !.val2 = StatusEnum(e.val2)]
    ELSE [e EXCEPT !.val = StatusEnum(e.val)]

\* lines 1052-1065: the leaf of an Enum column
EnumLeaf(q, e, m, sp) ==
    IF EnumError(e) # ""
    THEN [query |-> q, slot |-> DictSlot, error |-> Raise(EnumError(e), e.key)]
    ELSE [query |-> q,
          slot |-> PredSlot(FILTER_FUNCTIONS(sp.expression, m, sp.field,
                                             Coerced(e))),
          error |-> NoError]

\* lines 968-974: the operands' predicates joined under the key
OperandsJoined(k, r) ==
    [query |-> r.query,
     slot |-> PredSlot(join_by_map(k, NonDict(r.result))),
     error |-> r.error]

\* lines 990-1065: a key that is neither custom nor and/or/not, split into sp
FieldStep(c, inf, q, e, m, sp) ==
    IF sp.error # ""
    THEN [query |-> q, slot |-> DictSlot, error |-> Raise(sp.error, e.key)]
    ELSE IF ~HasFilterFunction(c, sp.expression)
    THEN [query |-> q, slot |-> DictSlot,
          error |-> Raise("KeyError", <<sp.expression>>)]
    ELSE IF IsDict(e) /\ sp.expression # RANGE
    THEN DescriptorsLoop(c, inf, q, e, m, 1)
    ELSE IF ~HasAttr(m, sp.field)
    THEN [query |-> q, slot |-> DictSlot,
          error |-> Raise(FieldNotFound, sp.field)]
    ELSE IF enum_class(m, sp.field) # ""
    THEN EnumLeaf(q, e, m, sp)
    ELSE [query |-> q,
          slot |-> PredSlot(FILTER_FUNCTIONS(sp.expression, m, sp.field, e)),
          error |-> NoError]

\* one iteration of `for key, value in filters.items()`
KeyStep(c, inf, q, e, m, parent_attr, expression_type) ==
    IF e.key \in custom_filters(c)
    THEN CustomStep(q, custom_filter(c, inf, e.key, q, e))
    ELSE IF e.key \in {<<"and">>, <<"or">>}
    THEN OperandsJoined(e.key[1],
             OperandsLoop(c, inf, q, e.subs, 1, <<>>, m, parent_attr,
                          expression_type))
    ELSE IF e.key = <<"not">>
    THEN Stored(translate_many_filter(c, inf, q, e.subs[1], "not", m, parent_attr,
                                      expression_type))
    ELSE FieldStep(c, inf, q, e, m, split_graphql_field(c, e.key))

\* lines 939-1065: `for key, value in filters.items()`, from key i on
KeysLoop(c, inf, q, level, i, result, m, parent_attr, expression_type) ==
    IF i > Len(level)
    THEN [query |-> q, result |-> result, error |-> NoError]
    ELSE NextKey(c, inf, KeyStep(c, inf, q, level[i], m, parent_attr, expression_type),
                 level, i, result, m, parent_attr, expression_type)

\* an exception ends the loop, otherwise the loop goes on with the next key
NextKey(c, inf, step, level, i, result, m, parent_attr, expression_type) ==
    IF step.error.type # ""
    THEN [query |-> step.query, result |-> result, error |-> step.error]
    ELSE KeysLoop(c, inf, step.query, level, i + 1, Append(result, step.slot), m,
                  parent_attr, expression_type)

\* lines 954-967: `for op_key, op_filters in enumerate(value)`
OperandsLoop(c, inf, q, operands, i, result, m, parent_attr, expression_type) ==
    IF i > Len(operands)
    THEN [query |-> q, result |-> result, error |-> NoError]
    ELSE NextOperand(c, inf, Stored(translate_many_filter(c, inf, q, operands[i], "and",
                                   m, parent_attr, expression_type)),
                     operands, i, result, m, parent_attr, expression_type)

NextOperand(c, inf, step, operands, i, result, m, parent_attr, expression_type) ==
    IF step.error.type # ""
    THEN [query |-> step.query, result |-> result, error |-> step.error]
    ELSE OperandsLoop(c, inf, step.query, operands, i + 1,
                      Append(result, step.slot), m, parent_attr,
                      expression_type)

\* lines 1067-1086: join this level and store it under the parent key
JoinLevel(r, join_by, parent_attr, expression_type) ==
    IF r.error.type # ""
    THEN [query |-> r.query, set |-> FALSE, p |-> NoPred, error |-> r.error]
    ELSE IF r.result = <<>>
    THEN [query |-> r.query, set |-> FALSE, p |-> NoPred, error |-> NoError]
    ELSE IF parent_attr = NoAttr
    THEN [query |-> r.query, set |-> TRUE,
          p |-> join_by_map(join_by, NonDict(r.result)), error |-> NoError]
    ELSE IF expression_type = "any"
    THEN [query |-> r.query, set |-> TRUE,
          p |-> Exists("any", parent_attr,
                       join_by_map(join_by, NonDict(r.result))),
          error |-> NoError]
    ELSE [query |-> r.query, set |-> TRUE,
          p |-> Exists("has", parent_attr,
                       join_by_map(join_by, NonDict(r.result))),
          error |-> NoError]

translate_many_filter(c, inf, q, level, join_by, m, parent_attr, expression_type) ==
    JoinLevel(KeysLoop(c, inf, q, level, 1, <<>>, m, parent_attr, expression_type),
              join_by, parent_attr, expression_type)

(***************************************************************************)
(* FilterSet.filter                                                        *)
(***************************************************************************)
ContextTypes == {"dict", "object", "slots"}

\* lines 835-847 altered: the mapping already on the context is kept
KeepContext(i) ==
    IF i.context \in {"dict", "object"}
    THEN [i EXCEPT !.has_aliases = TRUE]
    ELSE [i EXCEPT !.warnings = Append(@, "RuntimeWarning")]

\* lines 835-847: a fresh alias cache on the context, or a warning
ResetContext(i) ==
    IF i.context \in {"dict", "object"}
    THEN [i EXCEPT !.filter_aliases = {}, !.has_aliases = TRUE]
    ELSE [i EXCEPT !.warnings = Append(@, "RuntimeWarning")]

\* lines 861-864 altered: query.filter is called whether or not the root
\* level produced a predicate
ReturnFiltered(q, t) ==
    IF t.error.type # ""
    THEN [raised |-> TRUE, error |-> t.error, query |-> q]
    ELSE [raised |-> FALSE, error |-> NoError,
          query |-> QueryFilter(t.query, IF t.set THEN t.p ELSE and_(<<>>))]

\* lines 861-864: the root predicate, if one was stored, is added to the query
Return(q, t) ==
    IF t.error.type # ""
    THEN [raised |-> TRUE, error |-> t.error, query |-> q]
    ELSE IF t.set
    THEN [raised |-> FALSE, error |-> NoError,
          query |-> QueryFilter(t.query, t.p)]
    ELSE [raised |-> FALSE, error |-> NoError, query |-> t.query]

FilterSet_filter(c, i, q, f) ==
    Return(q, translate_many_filter(c, i, q, f, "and", ModelOf(c), NoAttr,
                                    ""))

(***************************************************************************)
(* The requests: every filter tree of bounded size over a vocabulary.      *)
(* The size of a tree counts its keys and its empty mappings.              *)
(*   "schema":  the keys generated for the bound model, and/or/not and     *)
(*              the relationship keys                                      *)
(*   "unknown": in addition a key that names no attribute, with a scalar   *)
(*              and with a mapping as value                                *)
(*   "custom":  the custom keys of UserFilter, a generated key and `and`   *)
(*   "enum":    keys on the Enum column of User, a list value on a String  *)
(*              column and and/or/not                                      *)
(***************************************************************************)
MaxNodes == 4

LeafEntries(family, m) ==
    (CASE m = "User" -> { Scalar(<<"username", "ilike">>, 1) } \cup
                        (IF family = "schema"
                         THEN { Range(<<"balance", "range">>, 5, 10) } ELSE {})
       [] m = "Assignment" -> { Scalar(<<"active">>, 2) }
       [] m = "Task" -> { Scalar(<<"name">>, 3) }
       [] OTHER -> {})
    \cup (IF family = "unknown" THEN { Scalar(<<"bogus">>, 4) } ELSE {})
    \cup (IF family = "custom" /\ m = "User"
          THEN { Scalar(<<"is", "admin">>, 1), Scalar(<<"is", "moderator">>, 1),
                 Scalar(<<"member", "of", "group">>, 6) }
          ELSE {})
    \cup (IF family = "enum" /\ m = "User"
          THEN { Scalar(<<"status">>, online),
                 List(<<"status", "in">>, offline, online),
                 Scalar(<<"status", "is", "null">>, 1),
                 List(<<"username", "in">>, 7, 8) }
          ELSE {})

\* <<key, model the sub-filter is written for>>
DictKeys(family, m) ==
    (CASE family \in {"custom", "enum"} -> {}
       [] m = "User" -> { <<<<"assignments">>, "Assignment">> }
       [] m = "Assignment" -> { <<<<"task">>, "Task">> }
       [] m = "Task" -> { <<<<"users">>, "User">>, <<<<"lead", "user">>, "User">> }
       [] OTHER -> {})
    \cup (IF family = "custom" THEN {} ELSE { <<<<"not">>, m>> })
    \cup (IF family = "unknown" THEN { <<<<"bogus">>, m>> } ELSE {})

ListKeys(family) == IF family = "schema" THEN { <<"and">>, <<"or">> } ELSE { <<"and">> }

HasKey(level, k) == \E i \in 1..Len(level) : level[i].key = k

\* Built by size, each size from the smaller ones.  For a size n (kept at
\* index n + 1) and a model m:
\*   E[n + 1][m]: the entries of size n,  L[n + 1][m]: the mappings of size n,
\*   O[n + 1][m]: the lists of mappings of total size n.
\* An empty mapping used as a value has size 1.
PerModel(f(_)) == [User |-> f("User"), Assignment |-> f("Assignment"), Task |-> f("Task")]

\* the mappings of size a that can be a value
DictValues(L, m, a) == IF a = 1 THEN {<<>>} \cup L[2][m] ELSE L[a + 1][m]

EntriesOf(family, L, O, n) ==
    LET ent(m) ==
            (IF n = 1 THEN LeafEntries(family, m) ELSE {})
            \cup UNION { { Dict(dk[1], d) : d \in DictValues(L, dk[2], n - 1) }
                         : dk \in (IF n >= 2 THEN DictKeys(family, m) ELSE {}) }
            \cup UNION { { Dicts(lk, l) : l \in O[n][m] }
                         : lk \in ListKeys(family) }
    IN  PerModel(ent)

LevelsOf(E, L, n) ==
    LET lev(m) ==
            UNION { UNION { { <<e>> \o r :
                              r \in { x \in L[n - a + 1][m] : ~HasKey(x, e.key) } }
                            : e \in E[a + 1][m] }
                    : a \in 1..n }
    IN  PerModel(lev)

OperandLists(L, O, n) ==
    LET ops(m) ==
            UNION { { <<d>> \o rest : d \in DictValues(L, m, a),
                                      rest \in O[n - a + 1][m] }
                    : a \in 1..n }
    IN  PerModel(ops)

RECURSIVE Rows(_, _, _, _, _)
WithLevels(family, E, L, O, n) == Rows(family, E, L, Append(O, OperandLists(L, O, n)), n + 1)
WithEntries(family, E, L, O, n) == WithLevels(family, E, Append(L, LevelsOf(E, L, n)), O, n)
Rows(family, E, L, O, n) ==
    IF n >= MaxNodes THEN [L |-> L, O |-> O]
    ELSE WithEntries(family, Append(E, EntriesOf(family, L, O, n)), L, O, n)

NoEntries(m) == {}
EmptyOnly(m) == {<<>>}

\* the mappings and lists of every size below MaxNodes
TreeRows ==
    [schema |-> Rows("schema", <<PerModel(NoEntries)>>, <<PerModel(EmptyOnly)>>,
                     <<PerModel(EmptyOnly)>>, 1),
     unknown |-> Rows("unknown", <<PerModel(NoEntries)>>, <<PerModel(EmptyOnly)>>,
                      <<PerModel(EmptyOnly)>>, 1),
     custom |-> Rows("custom", <<PerModel(NoEntries)>>, <<PerModel(EmptyOnly)>>,
                     <<PerModel(EmptyOnly)>>, 1),
     enum |-> Rows("enum", <<PerModel(NoEntries)>>, <<PerModel(EmptyOnly)>>,
                   <<PerModel(EmptyOnly)>>, 1)]

\* The request is any tree of at most MaxNodes nodes for a filter-set bound
\* to model m: the empty tree, or a first entry e of size n followed by a
\* smaller mapping without e's key.
Request(family, m) ==
    LET L == TreeRows[family].L
        O == TreeRows[family].O
        First(e, n) ==
            \E rn \in 0..(MaxNodes - n) :
               \E r \in L[rn + 1][m] :
                  /\ ~HasKey(r, e.key)
                  /\ filters = <<e>> \o r
    IN  \/ filters = <<>>
        \/ \E e \in LeafEntries(family, m) : First(e, 1)
        \/ \E n \in 2..MaxNodes :
             \E dk \in DictKeys(family, m) :
                \E d \in DictValues(L, dk[2], n - 1) : First(Dict(dk[1], d), n)
        \/ \E lk \in ListKeys(family) : First(Dicts(lk, <<>>), 1)
        \/ \E lk \in ListKeys(family) :
             \E n \in 2..MaxNodes :
                \E a \in 1..(n - 1) :
                   \E d \in DictValues(L, m, a) :
                      \E rest \in O[n - a][m] :
                         First(Dicts(lk, <<d>> \o rest), n)

(***************************************************************************)
(* State machine                                                           *)
(***************************************************************************)
NoRet == [raised |-> FALSE, error |-> NoError, query |-> NewQuery("")]
NoInfo == [context |-> "", has_aliases |-> FALSE, filter_aliases |-> {},
           warnings |-> <<>>]
NewInfo(type) == [NoInfo EXCEPT !.context = type]

\* a criterion the caller applied before filtering
IS_ACTIVE == Compare("eq", "User", <<"is", "active">>, 1, 0)

\* the queries a caller hands to FilterSet.filter
BaseQueries(m) == { NewQuery(m), QueryFilter(NewQuery(m), IS_ACTIVE) }

Idle ==
    /\ origin = [field |-> NoName, expression |-> ""]
    /\ key = NoName
    /\ split = NoSplit
    /\ aliases = <<>>

InitFilter ==
    /\ NoDefinitions
    /\ NoLoading
    /\ pc = "request"
    /\ cls \in {"UserFilter", "TaskFilter"}
    /\ \E family \in {"schema", "unknown"} : Request(family, ModelOf(cls))
    /\ info \in {NewInfo(t) : t \in ContextTypes}
    /\ query \in BaseQueries(ModelOf(cls))
    /\ \/ Len(filters) = 0
       \/ /\ info.context = "dict"
          /\ query = NewQuery(ModelOf(cls))
    /\ ret = NoRet
    /\ Idle

RECURSIVE ResolverCalls(_, _)
RECURSIVE ResolverCallsIn(_, _)
\* how often the keys of a tree reach the resolver of the custom key k
ResolverCalls(level, k) ==
    IF level = <<>> THEN 0
    ELSE (IF Head(level).key = k THEN 1
          ELSE ResolverCallsIn(Head(level).subs, k))
         + ResolverCalls(Tail(level), k)

ResolverCallsIn(operands, k) ==
    IF operands = <<>> THEN 0
    ELSE ResolverCalls(Head(operands), k) + ResolverCallsIn(Tail(operands), k)

\* n DeprecationWarnings
Deprecations(n) == [x \in 1..n |-> "DeprecationWarning"]

\* info.context after the pass: the reset of lines 835-847 and what the calls
\* of cls.aliased(info, ...) of a resolver did: every call warns, the first
\* one stores its alias in the cache or fails on a context without one
InfoAfter(c, i, f) ==
    LET n == IF c = "FilterAliasedResolveInfo"
             THEN ResolverCalls(f, <<"is", "moderator">>) ELSE 0
        reset == ResetContext(i)
    IN  IF n = 0 THEN reset
        ELSE IF aliases_from_context(i).type # ""
        THEN [reset EXCEPT !.warnings = @ \o Deprecations(1)]
        ELSE [reset EXCEPT
                 !.warnings = @ \o Deprecations(n),
                 !.filter_aliases = {[element |-> "Membership",
                                      name |-> "is_moderator", alias |-> 1]}]

\* a resolver calls cls.filter(info, query, filters)
Filter ==
    /\ pc = "request"
    /\ ret' = FilterSet_filter(cls, info, query, filters)
    /\ info' = InfoAfter(cls, info, filters)
    /\ pc' = IF ret'.raised THEN "raised" ELSE "returned"
    /\ UNCHANGED <<cls, origin, key, split, query, filters, aliases>>
    /\ UNCHANGED definitions
    /\ UNCHANGED loading

NextFilter == Filter

SpecFilter == InitFilter /\ [][NextFilter]_vars

RECURSIVE KeysOfTree(_)
\* the keys of a tree at any depth
KeysOfTree(level) ==
    UNION { {level[i].key}
            \cup UNION { KeysOfTree(level[i].subs[j])
                         : j \in 1..Len(level[i].subs) }
            : i \in 1..Len(level) }

\* the requests a schema with the filter-set accepts: every key is a field
\* of cls._meta.fields
InitFields(family, classes_) ==
    /\ NoDefinitions
    /\ NoLoading
    /\ pc = "request"
    /\ cls \in classes_
    /\ Request(family, ModelOf(cls))
    /\ KeysOfTree(filters) \subseteq Keys(ClassNamed(cls).fields)
    /\ info = NewInfo("dict")
    /\ query \in BaseQueries(ModelOf(cls))
    /\ \/ Len(filters) <= 1
       \/ query = NewQuery(ModelOf(cls))
    /\ ret = NoRet
    /\ Idle

\* requests with the custom keys of UserFilter, to UserFilter and to its
\* subclass F
InitCustom == InitFields("custom", {"UserFilter", "F"})

SpecCustom == InitCustom /\ [][NextFilter]_vars

\* requests with keys on the Enum column
InitEnum == InitFields("enum", {"UserFilter", "StatusFilter"})

SpecEnum == InitEnum /\ [][NextFilter]_vars

(***************************************************************************)
(* Naming a key and splitting it again                                     *)
(***************************************************************************)
\* column names a mapped class may declare
FieldNames ==
    { <<"username">>, <<"balance">>, <<"is", "active">>, <<"x">>,
      <<"created", "in">>, <<"is", "not">> }

\* keys a request may carry without the schema having generated them
RawKeys ==
    { <<"x", "not", "in">>, <<"x", "ne">>, <<"x", "equal">>, <<"x", "bogus">>,
      <<"x", "i", "newer", "asked", "for", "this">>, <<"x", "eq", "zero">>,
      <<"in">>, <<"x", "contained", "by">> }

\* the operators column filters are generated for
ColumnExpressions(c) == Expressions(c) \ {AND, OR, NOT}

NoOrigin == [field |-> NoName, expression |-> ""]

InitSplit ==
    /\ NoDefinitions
    /\ NoLoading
    /\ pc = "naming"
    /\ cls \in FilterSetClasses
    /\ origin = NoOrigin
    /\ key = NoName
    /\ split = NoSplit
    /\ info = NoInfo
    /\ query = NewQuery("")
    /\ filters = <<>>
    /\ ret = NoRet
    /\ aliases = <<>>

\* _generate_filter_fields names the key of (field_name, op)
Generate(field_name, op) ==
    /\ pc = "naming"
    /\ key' = generate_filter_key(cls, field_name, op)
    /\ origin' = [field |-> field_name, expression |-> op]
    /\ pc' = "named"
    /\ UNCHANGED <<cls, split, info, query, filters, ret, aliases>>
    /\ UNCHANGED definitions
    /\ UNCHANGED loading

\* a request carries a key of its own
RawKey(k) ==
    /\ pc = "naming"
    /\ key' = k
    /\ pc' = "named"
    /\ UNCHANGED <<cls, origin, split, info, query, filters, ret, aliases>>
    /\ UNCHANGED definitions
    /\ UNCHANGED loading

\* cls._split_graphql_field(key)
Split ==
    /\ pc = "named"
    /\ split' = split_graphql_field(cls, key)
    /\ pc' = "split"
    /\ UNCHANGED <<cls, origin, key, info, query, filters, ret, aliases>>
    /\ UNCHANGED definitions
    /\ UNCHANGED loading

NextSplit ==
    \/ \E f \in FieldNames : \E op \in ColumnExpressions(cls) : Generate(f, op)
    \/ \E k \in RawKeys : RawKey(k)
    \/ Split

SpecSplit == InitSplit /\ [][NextSplit]_vars

(***************************************************************************)
(* FilterSet.aliased within the passes of FilterSet.filter                 *)
(*                                                                         *)
(* aliases is the log of the events of the passes: calls of aliased, joins *)
(* made by custom filters, and further calls of filter on the same context.*)
(* An alias object is identified by the number of the call that created it.*)
(***************************************************************************)
MaxCalls == 3

Entities == {"Membership", "Group"}
AliasNames == {"is_moderator", "member_of"}

Event(call, element, name, alias, error) ==
    [call |-> call, element |-> element, name |-> name, alias |-> alias,
     error |-> error]

\* sqlalchemy.orm.aliased(element, name=name): a new alias object
NewAlias == Len(aliases) + 1

\* the join entities of the query with this (_target, name), in join order
Joined(q, element, name) ==
    SelectSeq(q.joins, LAMBDA j : j.target = element /\ j.name = name)

\* cls._aliases_from_query(query).get((element, name)): a dict built from the
\* join entities, a later entity replacing an earlier one with the same key;
\* 0 stands for KeyError
aliases_from_query(q, element, name) ==
    LET found == Joined(q, element, name)
    IN  IF found = <<>> THEN 0 ELSE found[Len(found)].entity

\* cls._aliases_from_info(info).get((element, name)); 0 stands for KeyError
aliases_from_info(i, element, name) ==
    LET found == { a \in i.filter_aliases :
                      a.element = element /\ a.name = name }
    IN  IF found = {} THEN 0 ELSE (CHOOSE a \in found : TRUE).alias

\* the events i and j belong to the same pass of filter
SamePass(i, j) == \A k \in i..j : aliases[k].call # "filter"

InitAlias ==
    /\ NoDefinitions
    /\ NoLoading
    /\ pc = "pass"
    /\ cls = "UserFilter"
    /\ info \in { ResetContext(NewInfo(t)) : t \in ContextTypes }
    /\ query = NewQuery("User")
    /\ aliases = <<>>
    /\ origin = NoOrigin
    /\ key = NoName
    /\ split = NoSplit
    /\ filters = <<>>
    /\ ret = NoRet

\* cls.aliased(query, element, name=name)
AliasedQuery(element, name) ==
    /\ pc = "pass"
    /\ Len(aliases) < MaxCalls
    /\ LET cached == aliases_from_query(query, element, name)
           alias == IF cached # 0 THEN cached ELSE NewAlias
       IN  aliases' = Append(aliases, Event("query", element, name, alias, ""))
    /\ UNCHANGED <<pc, cls, origin, key, split, info, query, filters, ret>>
    /\ UNCHANGED definitions
    /\ UNCHANGED loading

\* cls.aliased(info, element, name=name): the deprecated path
AliasedInfo(element, name) ==
    /\ pc = "pass"
    /\ Len(aliases) < MaxCalls
    /\ LET warned == [info EXCEPT !.warnings = Append(@, "DeprecationWarning")]
       IN  IF info.context \notin {"dict", "object"}
           THEN /\ info' = warned
                /\ aliases' = Append(aliases,
                                 Event("info", element, name, 0, "RuntimeError"))
           ELSE LET cached == aliases_from_info(info, element, name)
                IN  IF cached # 0
                    THEN /\ info' = warned
                         /\ aliases' = Append(aliases,
                                 Event("info", element, name, cached, ""))
                    ELSE /\ info' = [warned EXCEPT !.filter_aliases =
                                        @ \cup {[element |-> element,
                                                 name |-> name,
                                                 alias |-> NewAlias]}]
                         /\ aliases' = Append(aliases,
                                 Event("info", element, name, NewAlias, ""))
    /\ UNCHANGED <<pc, cls, origin, key, split, query, filters, ret>>
    /\ UNCHANGED definitions
    /\ UNCHANGED loading

\* a custom filter joins the alias an earlier call returned and hands the
\* joined query back: query = query.join(alias, ...)
Join(n) ==
    /\ pc = "pass"
    /\ Len(aliases) < MaxCalls
    /\ aliases[n].call \in {"query", "info"}
    /\ aliases[n].alias # 0
    /\ SamePass(n, Len(aliases))
    /\ \A j \in 1..Len(query.joins) : query.joins[j].entity # aliases[n].alias
    /\ query' = [query EXCEPT !.joins =
                    Append(@, [target |-> aliases[n].element,
                               name |-> aliases[n].name,
                               entity |-> aliases[n].alias])]
    /\ aliases' = Append(aliases, Event("join", aliases[n].element,
                                        aliases[n].name, aliases[n].alias, ""))
    /\ UNCHANGED <<pc, cls, origin, key, split, info, filters, ret>>
    /\ UNCHANGED definitions
    /\ UNCHANGED loading

\* cls.filter is called again with the same context and a new query
NewPass ==
    /\ pc = "pass"
    /\ Len(aliases) < MaxCalls
    /\ info' = ResetContext(info)
    /\ query' = NewQuery("User")
    /\ aliases' = Append(aliases, Event("filter", "", "", 0, ""))
    /\ UNCHANGED <<pc, cls, origin, key, split, filters, ret>>
    /\ UNCHANGED definitions
    /\ UNCHANGED loading

NextAlias ==
    \/ \E e \in Entities : \E n \in AliasNames : AliasedQuery(e, n)
    \/ \E e \in Entities : \E n \in AliasNames : AliasedInfo(e, n)
    \/ \E n \in 1..Len(aliases) : Join(n)
    \/ NewPass

SpecAlias == InitAlias /\ [][NextAlias]_vars

(***************************************************************************)
(* What the compiled statement contains: the SQL compiler renders an empty *)
(* conjunction or disjunction as nothing and leaves it out of the clause   *)
(* list that holds it; a query whose criteria all render as nothing has    *)
(* no WHERE clause.                                                        *)
(***************************************************************************)
Nothing == Clause("nothing", <<>>)

RECURSIVE Rendered(_)
Rendered(p) ==
    IF p.op \in {"and", "or"}
    THEN LET parts == [i \in 1..Len(p.args) |-> Rendered(p.args[i])]
             shown == SelectSeq(parts, LAMBDA x : x # Nothing)
         IN  IF shown = <<>> THEN Nothing
             ELSE IF Len(shown) = 1 THEN shown[1]
             ELSE Clause(p.op, shown)
    ELSE IF p.args # <<>>
    THEN [p EXCEPT !.args = [i \in 1..Len(p.args) |-> Rendered(p.args[i])]]
    ELSE p

\* str(query.whereclause): Nothing when there is no WHERE clause
WhereClause(q) == Rendered(Clause("and", q.where))

(***************************************************************************)
(* Reading a request tree                                                  *)
(***************************************************************************)
\* the (attribute, operator) each generated key of the requests stands for
KeyAttribute(k) ==
    CASE k = <<"username", "ilike">> -> <<"username">>
      [] k = <<"balance", "range">> -> <<"balance">>
      [] k = <<"username", "in">> -> <<"username">>
      [] k \in {<<"status", "in">>, <<"status", "is", "null">>} -> <<"status">>
      [] OTHER -> k

KeyOperator(k) ==
    CASE k = <<"username", "ilike">> -> ILIKE
      [] k = <<"balance", "range">> -> RANGE
      [] k \in {<<"username", "in">>, <<"status", "in">>} -> IN_
      [] k = <<"status", "is", "null">> -> IS_NULL
      [] OTHER -> EQ

IsColumn(m, name) == HasAttr(m, name) /\ Attr(m, name).kind = "column"

\* a key with a scalar or range value that names an operator on a column of m
IsLeafKey(e, m) ==
    /\ e.kind \in {"scalar", "range", "list"}
    /\ IsColumn(m, KeyAttribute(e.key))

\* a key of m that leads to another model: a relationship or a proxy of one
IsRelationshipKey(e, m) ==
    /\ e.kind = "dict"
    /\ HasAttr(m, e.key)
    /\ Attr(m, e.key).kind \in {"relationship", "proxy"}

\* the model a relationship key leads to
RelatedModel(m, k) ==
    IF Attr(m, k).kind = "relationship" THEN Attr(m, k).target
    ELSE Attr(Attr(m, k).target, Attr(m, k).value_attr).target

\* whether the relationship behind the key is collection-valued; for a proxy
\* that is the relationship named by its own target collection
IsCollection(m, k) ==
    IF Attr(m, k).kind = "relationship" THEN Attr(m, k).uselist
    ELSE Attr(m, Attr(m, k).target_collection).uselist

\* the operator function applied to the attribute the key names
LeafPredicate(e, m) ==
    FILTER_FUNCTIONS(KeyOperator(e.key), m, KeyAttribute(e.key), e)

\* AND of a non-empty list of predicates, a single one standing for itself
Conjunction(ps) == IF Len(ps) = 1 THEN ps[1] ELSE Clause("and", ps)
Disjunction(ps) == IF Len(ps) = 1 THEN ps[1] ELSE Clause("or", ps)

RECURSIVE WellFormed(_, _)
\* every mapping and list of the tree is non-empty and every key is a leaf
\* key, a relationship key or and/or/not
WellFormed(level, m) ==
    /\ level # <<>>
    /\ \A i \in 1..Len(level) :
         LET e == level[i]
         IN  \/ IsLeafKey(e, m)
             \/ /\ IsRelationshipKey(e, m)
                /\ WellFormed(e.subs[1], RelatedModel(m, e.key))
             \/ /\ e.key = <<"not">>
                /\ WellFormed(e.subs[1], m)
             \/ /\ e.key \in {<<"and">>, <<"or">>}
                /\ e.subs # <<>>
                /\ \A j \in 1..Len(e.subs) : WellFormed(e.subs[j], m)

RECURSIVE UsesKey(_, _)
\* some key of the tree, at any depth, is one of K
UsesKey(level, K) ==
    \E i \in 1..Len(level) :
        \/ level[i].key \in K
        \/ \E j \in 1..Len(level[i].subs) : UsesKey(level[i].subs[j], K)

BooleanKeys == {<<"and">>, <<"or">>, <<"not">>}
RelationshipKeys ==
    {<<"assignments">>, <<"task">>, <<"users">>, <<"lead", "user">>}

RECURSIVE Meaning(_, _)
\* the predicate a well-formed tree denotes: leaves are operator functions,
\* and/or combine their operands in list order, not negates the conjunction
\* under it, a relationship key wraps the conjunction under it in any or has
Meaning(level, m) ==
    LET of(e) ==
            IF e.key = <<"and">>
            THEN Conjunction([j \in 1..Len(e.subs) |-> Meaning(e.subs[j], m)])
            ELSE IF e.key = <<"or">>
            THEN Disjunction([j \in 1..Len(e.subs) |-> Meaning(e.subs[j], m)])
            ELSE IF e.key = <<"not">>
            THEN Clause("not", <<Meaning(e.subs[1], m)>>)
            ELSE IF IsRelationshipKey(e, m)
            THEN Exists(IF IsCollection(m, e.key) THEN "any" ELSE "has",
                        [model |-> m, key |-> e.key],
                        Meaning(e.subs[1], RelatedModel(m, e.key)))
            ELSE LeafPredicate(e, m)
    IN  Conjunction([i \in 1..Len(level) |-> of(level[i])])

Returned == pc = "returned"
Raised == pc = "raised"
Done == pc \in {"returned", "raised"}

(***************************************************************************)
(* Properties of FilterSet.filter, checked under SpecFilter                *)
(***************************************************************************)
\* a non-empty level all of whose keys are leaf keys of m
AllLeaves(level, m) ==
    /\ level # <<>>
    /\ \A i \in 1..Len(level) : IsLeafKey(level[i], m)

LeafPredicates(level, m) == [i \in 1..Len(level) |-> LeafPredicate(level[i], m)]

\* C1: when every key of the level is a leaf key, filter adds exactly one
\* predicate to the query: the AND, in key order, of the operator function of
\* each key applied to its attribute and value (a range mapping is a leaf).
C1_AllLeafLevel ==
    (Done /\ AllLeaves(filters, ModelOf(cls))) =>
        /\ Returned
        /\ ret.query.where =
              Append(query.where,
                     Conjunction(LeafPredicates(filters, ModelOf(cls))))

C1_Witness ==
    /\ Returned
    /\ filters = << Range(<<"balance", "range">>, 5, 10),
                    Scalar(<<"username", "ilike">>, 1) >>
    /\ Len(ret.query.where) = 1
    /\ ret.query.where[1].op = "and"

\* C2: filtering with the empty mapping returns the query it was given, with
\* no predicate added, whatever the type of the context object.
C2_EmptyFilters ==
    (Done /\ filters = <<>>) => (Returned /\ ret.query = query)

C2_Witness ==
    /\ Returned
    /\ filters = <<>>
    /\ info.context = "slots"
    /\ ret.query.where = <<IS_ACTIVE>>

\* the two leaves under {not: {a, b}} or {not: {and: [{a}, {b}]}}, if the
\* request has one of these shapes
NegatedPair(f, m) ==
    IF Len(f) = 1 /\ f[1].key = <<"not">> /\ Len(f[1].subs[1]) = 2
                  /\ AllLeaves(f[1].subs[1], m)
    THEN f[1].subs[1]
    ELSE IF /\ Len(f) = 1 /\ f[1].key = <<"not">> /\ Len(f[1].subs[1]) = 1
            /\ f[1].subs[1][1].key = <<"and">>
            /\ Len(f[1].subs[1][1].subs) = 2
            /\ \A j \in 1..2 : /\ Len(f[1].subs[1][1].subs[j]) = 1
                               /\ AllLeaves(f[1].subs[1][1].subs[j], m)
    THEN << f[1].subs[1][1].subs[1][1], f[1].subs[1][1].subs[2][1] >>
    ELSE <<>>

\* C3: {not: {and: [{a}, {b}]}} and {not: {a, b}} both translate to
\* NOT (a AND b): the negation of the conjunction, not a conjunction of
\* negations.
C3_NotNegatesConjunction ==
    (Done /\ NegatedPair(filters, ModelOf(cls)) # <<>>) =>
        /\ Returned
        /\ ret.query.where =
              << Clause("not",
                   << Clause("and",
                        LeafPredicates(NegatedPair(filters, ModelOf(cls)),
                                       ModelOf(cls))) >>) >>

C3_Witness ==
    /\ Returned
    /\ filters = << Dict(<<"not">>,
                      << Dicts(<<"and">>,
                           << <<Scalar(<<"username", "ilike">>, 1)>>,
                              <<Range(<<"balance", "range">>, 5, 10)>> >>) >>) >>
    /\ ret.query.where[1].op = "not"

\* C4: the operands of and/or are translated independently, each into the
\* conjunction of its own keys; the key's predicate is their AND/OR in list
\* order and is conjoined with the sibling keys of the level, at every depth
\* of and/or/not nesting.
C4_AndOrOperands ==
    (/\ Done
     /\ WellFormed(filters, ModelOf(cls))
     /\ ~UsesKey(filters, RelationshipKeys)) =>
        /\ Returned
        /\ ret.query.where = <<Meaning(filters, ModelOf(cls))>>

C4_Witness ==
    /\ Returned
    /\ Len(filters) = 2
    /\ filters[1].key = <<"or">>
    /\ Len(filters[1].subs) = 2
    /\ filters[2].kind = "range"
    /\ ret.query.where[1].op = "and"
    /\ ret.query.where[1].args[1].op = "or"

\* C5: a relationship key with a non-empty sub-filter becomes any(...) over a
\* collection-valued relationship and has(...) over a scalar one, around the
\* sub-filter translated against the related model; for an association proxy
\* the choice follows the proxy's own target collection.
C5_RelationshipKeys ==
    (/\ Done
     /\ WellFormed(filters, ModelOf(cls))
     /\ UsesKey(filters, RelationshipKeys)
     /\ ~UsesKey(filters, BooleanKeys)) =>
        /\ Returned
        /\ ret.query.where = <<Meaning(filters, ModelOf(cls))>>

RECURSIVE OnlyRelationships(_, _)
\* every key of the tree is a relationship key: no key at any depth carries
\* a value to compare with
OnlyRelationships(level, m) ==
    \A i \in 1..Len(level) :
        /\ IsRelationshipKey(level[i], m)
        /\ OnlyRelationships(level[i].subs[1], RelatedModel(m, level[i].key))

\* C6: a relationship key whose sub-filter is an empty mapping contributes no
\* predicate and no EXISTS wrapper: a request in which nothing but such keys
\* occurs leaves the query without a WHERE clause.
C6_EmptyRelationship ==
    (/\ Done
     /\ filters # <<>>
     /\ OnlyRelationships(filters, ModelOf(cls))) =>
        /\ Returned
        /\ WhereClause(ret.query) = Nothing

RECURSIVE Unresolved(_, _, _)
\* some key, at any depth, is neither a custom filter, nor and/or/not, nor
\* resolves to an attribute of the model its level is written for
Unresolved(c, level, m) ==
    \E i \in 1..Len(level) :
        LET e == level[i]
        IN  IF e.key \in custom_filters(c) THEN FALSE
            ELSE IF e.key \in BooleanKeys
            THEN \E j \in 1..Len(e.subs) : Unresolved(c, e.subs[j], m)
            ELSE IF IsRelationshipKey(e, m)
            THEN Unresolved(c, e.subs[1], RelatedModel(m, e.key))
            ELSE ~IsLeafKey(e, m)

\* C8: a request with a key that is neither custom, nor and/or/not, nor an
\* attribute of the current model raises KeyError 'Field not found: <name>'
\* whatever the shape of the key's value, and returns no query.
C8_UnknownKey ==
    (Done /\ Unresolved(cls, filters, ModelOf(cls))) =>
        /\ Raised
        /\ ret.error = Raise(FieldNotFound, <<"bogus">>)

(***************************************************************************)
(* Properties of key naming and splitting, checked under SpecSplit         *)
(***************************************************************************)
\* C7: for every attribute name and operator, the generated key splits back
\* to exactly that attribute and operator, also when the attribute name
\* itself ends in an operator's render name (created_in, is_not).
C7_NamingRoundTrip ==
    (pc = "split" /\ origin # NoOrigin) =>
        /\ split.error = ""
        /\ split.field = origin.field
        /\ split.expression = origin.expression

\* the operators whose non-empty render name the key ends in
SuffixOperators(c, k) ==
    { op \in Expressions(c) :
        RenderName(c, op) # <<>> /\ EndsWith(k, RenderName(c, op)) }

\* the operators with the empty render name
EmptyNamed(c) == { op \in Expressions(c) : RenderName(c, op) = <<>> }

\* C9: the split takes the longest render name that is a suffix of the key;
\* with no such suffix the whole key is the field and the operator is the one
\* with the empty render name; with neither, KeyError 'Operator not found'.
\* Renaming an operator changes the suffix that is recognised.
C9_LongestSuffix ==
    (pc = "split") =>
        IF SuffixOperators(cls, key) # {}
        THEN /\ split.error = ""
             /\ split.expression \in SuffixOperators(cls, key)
             /\ \A op \in SuffixOperators(cls, key) :
                   NameLen(RenderName(cls, op)) <=
                      NameLen(RenderName(cls, split.expression))
             /\ split.field \o RenderName(cls, split.expression) = key
        ELSE IF EmptyNamed(cls) # {}
        THEN /\ split.error = ""
             /\ split.expression \in EmptyNamed(cls)
             /\ split.field = key
        ELSE split.error = OperatorNotFound

C9_Witness ==
    /\ pc = "split"
    /\ cls = "CustomRenamed"
    /\ key = <<"x", "not", "in">>
    /\ split.field = <<"x">>
    /\ split.expression = NOT_IN

(***************************************************************************)
(* Properties of FilterSet.aliased, checked under SpecAlias                *)
(***************************************************************************)
\* C10: within one pass, all calls aliased(query, E, name=n) with the same
\* (E, n) return the identical alias, whatever happened between them (also
\* when nothing was joined in between); calls with the same E and another
\* name return distinct aliases.
C10_SameAliasInPass ==
    \A i \in 1..Len(aliases) : \A j \in i..Len(aliases) :
        (/\ aliases[i].call = "query"
         /\ aliases[j].call = "query"
         /\ SamePass(i, j)
         /\ aliases[i].element = aliases[j].element) =>
            (aliases[i].alias = aliases[j].alias
                <=> aliases[i].name = aliases[j].name)

(***************************************************************************)
(* The class statements of a process                                       *)
(***************************************************************************)
MaxClasses == 2
MaxExtras == 3
MaxNested == 3

\* the operators of the extra expressions of test_extra_expression
NE_ZERO == "ne_zero"

Extra(k, graphql_name, for_types) ==
    [key |-> k, graphql_name |-> graphql_name, for_types |-> for_types]

InitDefine ==
    /\ pc = "module"
    /\ TSVectorType \in {"TSVectorType", "object"}
    /\ classes = <<FilterSet(TSVectorType)>>
    /\ AUTO_TYPE_NAMES = <<>>
    /\ auto_types = <<>>
    /\ defined = <<>>
    /\ NoLoading
    /\ cls = ""
    /\ origin = NoOrigin
    /\ key = NoName
    /\ split = NoSplit
    /\ info = NoInfo
    /\ query = NewQuery("")
    /\ filters = <<>>
    /\ ret = NoRet
    /\ aliases = <<>>

\* the outcome of a class statement becomes the state of the process
Executed(body, o) ==
    /\ classes' = o.classes
    /\ AUTO_TYPE_NAMES' = o.names
    /\ auto_types' = o.types
    /\ defined' = Append(defined, [body |-> body, error |-> o.error,
                                   cls |-> IF o.error = "" THEN Len(o.classes)
                                           ELSE 0])

\* `class <name>(<base>): <body>` is executed
Define(body) ==
    /\ pc = "module"
    /\ Executed(body, class_statement(classes, body, AUTO_TYPE_NAMES, auto_types))
    /\ UNCHANGED <<pc, cls, origin, key, split, info, query, filters, ret,
                   aliases, TSVectorType>>
    /\ UNCHANGED loading

\* the name of the next class
NextName == "C" \o ToString(Len(defined) + 1)

\* test_graphql_operators_renaming
NeRenamed == Renamed(GRAPHQL_EXPRESSION_NAMES, NE,
                     <<"i", "newer", "asked", "for", "this">>)

\* the same way of renaming, applied to `and`
AndRenamed == Renamed(GRAPHQL_EXPRESSION_NAMES, AND, <<"all", "of">>)

\* Class statements without EXTRA_* attributes: those of test_shortcut,
\* test_meta_without_model, test_number_filter_fields,
\* test_hybrid_property_automatic_filter_binding, declared input fields, a
\* base with its own ALLOWED_FILTERS, and render names replaced the way
\* test_graphql_operators_renaming does
PlainBodies(b) ==
    { [b EXCEPT !.declared = << <<"field">> >>],
      b,
      [b EXCEPT !.abstract = TRUE],
      [b EXCEPT !.fields = << All(<<"id">>) >>],
      [b EXCEPT !.model = "User", !.fields = << All(<<"is", "active">>) >>],
      [b EXCEPT !.model = "User",
                !.fields = << Listed(<<"username">>, <<EQ, IN_, ILIKE>>),
                              Listed(<<"balance">>,
                                     <<NE, GT, LT, RANGE, IS_NULL>>) >>],
      [b EXCEPT !.model = "User",
                !.fields = << All(<<"username", "hybrid", "property">>) >>],
      [b EXCEPT !.model = "User",
                !.fields = << Listed(<<"username", "hybrid", "property">>,
                                     <<EQ, NE, IN_>>) >>],
      [b EXCEPT !.model = "User", !.declared = << <<"username">> >>,
                !.fields = << Listed(<<"username">>, <<EQ>>) >>],
      [b EXCEPT !.model = "User", !.declared = << <<"is", "admin">> >>,
                !.fields = << All(<<"id">>), All(<<"balance">>) >>],
      [b EXCEPT !.abstract = TRUE, !.own = {"ALLOWED_FILTERS"},
                !.ALLOWED_FILTERS = << Allowed("Integer", <<EQ, GT>>) >>],
      [b EXCEPT !.model = "User", !.own = {"GRAPHQL_EXPRESSION_NAMES"},
                !.GRAPHQL_EXPRESSION_NAMES = NeRenamed,
                !.fields = << Listed(<<"username">>, <<NE>>) >>],
      [b EXCEPT !.model = "User", !.own = {"GRAPHQL_EXPRESSION_NAMES"},
                !.GRAPHQL_EXPRESSION_NAMES = AndRenamed,
                !.fields = << All(<<"balance">>) >>] }

NextDefine ==
    \E base \in 1..Len(classes) :
       \E body \in PlainBodies(ClassBody(NextName, base)) :
          Len(defined) < MaxClasses /\ Define(body)

SpecDefine == InitDefine /\ [][NextDefine]_vars

\* Class statements whose spec is ALL for columns of several type classes:
\* those of test_sql_alchemy_subclass_column_types and
\* test_sql_alchemy_wrong_column_types, an Enum column, and an
\* ALLOWED_FILTERS that registers String before Unicode
TypeBodies(b) ==
    { [b EXCEPT !.model = "User", !.fields = << All(<<"id">>) >>],
      [b EXCEPT !.model = "User", !.fields = << All(<<"status">>) >>],
      [b EXCEPT !.abstract = TRUE, !.own = {"ALLOWED_FILTERS"}],
      [b EXCEPT !.abstract = TRUE, !.own = {"ALLOWED_FILTERS"},
                !.ALLOWED_FILTERS = << Allowed("Integer", <<EQ, GT>>) >>],
      [b EXCEPT !.abstract = TRUE, !.own = {"ALLOWED_FILTERS"},
                !.ALLOWED_FILTERS = << Allowed("String", <<EQ>>),
                                       Allowed("Unicode", <<EQ, NE>>) >>],
      [b EXCEPT !.model = "TestModel",
                !.fields = << All(<<"id">>), All(<<"text">>) >>],
      [b EXCEPT !.model = "TestModel", !.fields = << All(<<"text">>) >>] }

NextTypes ==
    \E base \in 1..Len(classes) :
       \E body \in TypeBodies(ClassBody(NextName, base)) :
          Len(defined) < MaxClasses /\ Define(body)

SpecTypes == InitDefine /\ [][NextTypes]_vars


\* Class statements with EXTRA_EXPRESSIONS and EXTRA_ALLOWED_FILTERS: those
\* of test_extra_expression and test_sql_alchemy_subclass_column_types, and
\* a base class that declares EXTRA_ALLOWED_FILTERS for Integer
ExtraBodies(b) ==
    { [b EXCEPT !.abstract = TRUE,
                !.EXTRA_EXPRESSIONS =
                    << Extra(ZERO, <<"eq", "zero">>, <<"Integer", "NewInt">>) >>],
      [b EXCEPT !.model = "User",
                !.EXTRA_EXPRESSIONS =
                    << Extra(NE_ZERO, <<"ne", "zero">>, <<"Integer", "NewInt">>) >>,
                !.fields = << All(<<"balance">>), Listed(<<"id">>, <<ZERO>>) >>],
      [b EXCEPT !.model = "User",
                !.EXTRA_EXPRESSIONS =
                    << Extra(NE_ZERO, <<"ne", "zero">>, <<"Integer">>) >>,
                !.fields = << All(<<"balance">>) >>],
      [b EXCEPT !.model = "User", !.fields = << All(<<"id">>) >>],
      [b EXCEPT !.abstract = TRUE,
                !.EXTRA_ALLOWED_FILTERS = << Allowed("Integer", <<EQ, GT>>) >>],
      [b EXCEPT !.model = "TestModel",
                !.EXTRA_ALLOWED_FILTERS = << Allowed("String", <<EQ>>) >>,
                !.fields = << All(<<"id">>), All(<<"text">>) >>] }

NextExtra ==
    \E base \in 1..Len(classes) :
       \E body \in ExtraBodies(ClassBody(NextName, base)) :
          Len(defined) < MaxExtras /\ Define(body)

SpecExtra == InitDefine /\ [][NextExtra]_vars

\* Class statements with relationships in the field spec: over the models of
\* tests/models.py, and over Person with the relationships address and
\* address1 to Address
NestedBodies(b) ==
    { [b EXCEPT !.model = "User",
                !.fields = << Nested(<<"assignments">>,
                                << Nested(<<"task">>, << Listed(<<"name">>, <<EQ>>) >>),
                                   Listed(<<"active">>, <<EQ>>) >>) >>],
      [b EXCEPT !.model = "Task",
                !.fields = << Nested(<<"assignments">>,
                                << Nested(<<"task">>, << All(<<"name">>) >>) >>) >>],
      [b EXCEPT !.model = "Assignment",
                !.fields = << Nested(<<"task">>,
                                << Nested(<<"assignments">>,
                                          << All(<<"active">>) >>) >>) >>],
      [b EXCEPT !.model = "Person",
                !.fields = << Nested(<<"address">>, << All(<<"city">>) >>) >>],
      [b EXCEPT !.model = "Person",
                !.fields = << Nested(<<"address1">>, << All(<<"city">>) >>) >>] }

NextNested ==
    \E body \in NestedBodies(ClassBody(NextName, 1)) :
       Len(defined) < MaxNested /\ Define(body)

SpecNested == InitDefine /\ [][NextNested]_vars


(***************************************************************************)
(* Claims about class definition                                           *)
(***************************************************************************)
\* the class statements that bound a filter-set that is not abstract
FilterSets ==
    { k \in 1..Len(defined) : defined[k].cls # 0 /\ ~defined[k].body.abstract }

\* the class statements that reached the generation of default filters
Generating ==
    { k \in 1..Len(defined) :
         ~defined[k].body.abstract /\ defined[k].body.model # "" }

\* the field map of a class has the key with the type
HasField(c, k, type) == HasEntry(c.fields, k) /\ Get(c.fields, k).type = type

\* C13: every non-abstract filter-set, bound to a model or not, has the
\* fields `and`, `or` and `not` in its field map; `and` and `or` are lists
\* of non-null of the filter-set itself, `not` is the filter-set itself.
C13_BooleanFields ==
    \A k \in FilterSets :
       /\ HasField(classes[defined[k].cls], <<"and">>,
                   InputType("List(NonNull)", <<defined[k].body.name>>))
       /\ HasField(classes[defined[k].cls], <<"or">>,
                   InputType("List(NonNull)", <<defined[k].body.name>>))
       /\ HasField(classes[defined[k].cls], <<"not">>,
                   InputType("type", <<defined[k].body.name>>))

\* the registries as a class sees them, the lists read through the dicts
\* that hold them
Registries(cs, n) ==
    [GRAPHQL_EXPRESSION_NAMES |-> cs[n].GRAPHQL_EXPRESSION_NAMES,
     ALLOWED_FILTERS |->
        [i \in 1..Len(cs[n].ALLOWED_FILTERS) |->
            Allowed(cs[n].ALLOWED_FILTERS[i].key,
                    ListOf(cs, cs[n].ALLOWED_FILTERS[i]))],
     FILTER_FUNCTIONS |-> cs[n].FILTER_FUNCTIONS,
     FILTER_OBJECT_TYPES |-> cs[n].FILTER_OBJECT_TYPES,
     DESCRIPTIONS |-> cs[n].DESCRIPTIONS,
     EXTRA_EXPRESSIONS |-> cs[n].EXTRA_EXPRESSIONS,
     EXTRA_ALLOWED_FILTERS |-> cs[n].EXTRA_ALLOWED_FILTERS]

\* C14: a class statement changes the registries of no class that existed
\* before it (FilterSet, shared bases, siblings): render names, allowed
\* filters, filter functions, input types, descriptions and the EXTRA_*
\* dictionaries are what they were.
C14_RegistriesFramed ==
    [][\A n \in 1..Len(classes) :
          Registries(classes', n) = Registries(classes, n)]_vars

\* the spec entries of a class statement that name a column of its model
ColumnEntries(body) ==
    { e \in Elements(body.fields) : IsColumn(body.model, e.key) }

\* the spec entries of a class statement that name a hybrid attribute
HybridEntries(body) ==
    { e \in Elements(body.fields) :
         HasAttr(body.model, e.key) /\ Attr(body.model, e.key).kind = "hybrid" }

\* the keys of the operators of a list, for one attribute
KeysOf(table, attr, ops) == { filter_key(table, attr, op) : op \in Elements(ops) }

\* the keys the field map holds besides and, or, not and the declared fields
GeneratedKeys(cs, n) ==
    { f \in Keys(cs[n].fields) :
         /\ f \notin Keys(BooleanFields(cs[n]))
         /\ f \notin Keys(YankedFields(cs, ReversedMro(cs, n),
                                       Len(ReversedMro(cs, n)))) }

\* every ALL entry names a column whose type class is itself registered
ExactlyRegistered(c, body) ==
    \A e \in Elements(body.fields) :
       /\ IsColumn(body.model, e.key)
       /\ e.kind = "all" => HasEntry(c.ALLOWED_FILTERS,
                                     ColumnType(body.model, e.key))

\* the keys C15 names for one spec entry
KeysOfEntry(cs, n, body, e) ==
    IF e.kind = "list"
    THEN KeysOf(cs[n].GRAPHQL_EXPRESSION_NAMES, e.key, e.ops)
    ELSE KeysOf(cs[n].GRAPHQL_EXPRESSION_NAMES, e.key,
                ListOf(cs, Get(cs[n].ALLOWED_FILTERS,
                               ColumnType(body.model, e.key))))
         \cup (IF Nullable(body.model, e.key)
               THEN {filter_key(cs[n].GRAPHQL_EXPRESSION_NAMES, e.key, IS_NULL)}
               ELSE {})

\* C15: for a column with the ALL sentinel the generated keys are those of
\* the operators allowed for the column's type plus <attr>_is_null iff the
\* column is nullable; for an explicit list they are those of the listed
\* operators; a hybrid attribute with the ALL sentinel is rejected with
\* ValueError 'Unsupported field type for automatic filter binding'.
C15_GeneratedKeys ==
    /\ \A k \in FilterSets :
          (defined[k].body.model # ""
             /\ ExactlyRegistered(classes[defined[k].cls], defined[k].body))
          => \A f \in Keys(classes[defined[k].cls].fields) :
                \/ f \in Keys(BooleanFields(classes[defined[k].cls]))
                \/ f \in Keys(YankedFields(classes,
                                  ReversedMro(classes, defined[k].cls),
                                  Len(ReversedMro(classes, defined[k].cls))))
                \/ \E e \in ColumnEntries(defined[k].body) :
                      f \in KeysOfEntry(classes, defined[k].cls,
                                        defined[k].body, e)
    /\ \A k \in FilterSets :
          (defined[k].body.model # ""
             /\ ExactlyRegistered(classes[defined[k].cls], defined[k].body))
          => \A e \in ColumnEntries(defined[k].body) :
                KeysOfEntry(classes, defined[k].cls, defined[k].body, e)
                   \subseteq Keys(classes[defined[k].cls].fields)
    /\ \A k \in Generating :
          (\E e \in HybridEntries(defined[k].body) : e.kind = "all")
          => defined[k].error = UnsupportedFieldType

C15_Witness ==
    \E k \in FilterSets :
       /\ defined[k].body.model # ""
       /\ ExactlyRegistered(classes[defined[k].cls], defined[k].body)
       /\ \E e \in ColumnEntries(defined[k].body) :
             e.kind = "all" /\ Nullable(defined[k].body.model, e.key)
       /\ \E e \in ColumnEntries(defined[k].body) :
             e.kind = "all" /\ ~Nullable(defined[k].body.model, e.key)

RECURSIVE NearestLoop(_, _, _, _)
\* the list registered for the first registered class among the ancestors
\* of a type class, the class itself first
NearestLoop(cs, allowed, ancestors, i) ==
    IF i > Len(ancestors) THEN [found |-> FALSE, ops |-> <<>>]
    ELSE IF HasEntry(allowed, ancestors[i])
    THEN [found |-> TRUE, ops |-> ListOf(cs, Get(allowed, ancestors[i]))]
    ELSE NearestLoop(cs, allowed, ancestors, i + 1)

Nearest(cs, allowed, type_class) ==
    NearestLoop(cs, allowed, Ancestors(type_class), 1)

\* the registry a class statement looks the column types up in
RegistryOf(k) ==
    IF defined[k].cls # 0 THEN classes[defined[k].cls].ALLOWED_FILTERS
    ELSE ClassObject(classes[defined[k].body.base], defined[k].body)
            .ALLOWED_FILTERS

\* the class statements whose spec is ALL for columns only
AllColumns ==
    { k \in Generating :
         /\ defined[k].body.fields # <<>>
         /\ \A e \in Elements(defined[k].body.fields) :
               e.kind = "all" /\ IsColumn(defined[k].body.model, e.key) }

\* the keys of a column for the list of the nearest registered ancestor
NearestKeys(k, e) ==
    KeysOf(classes[defined[k].cls].GRAPHQL_EXPRESSION_NAMES, e.key,
           Nearest(classes, RegistryOf(k),
                   ColumnType(defined[k].body.model, e.key)).ops)
    \cup (IF Nullable(defined[k].body.model, e.key)
          THEN {filter_key(classes[defined[k].cls].GRAPHQL_EXPRESSION_NAMES,
                           e.key, IS_NULL)}
          ELSE {})

\* C16: the ALL sentinel uses the list registered for the column's type
\* class, else the list of the nearest registered ancestor of the type
\* class, whatever the order of registration; with no registered ancestor
\* the class definition fails with KeyError 'Unsupported column type. Hint:
\* use EXTRA_ALLOWED_FILTERS.'.
C16_NearestAncestor ==
    \A k \in AllColumns :
       IF \E e \in Elements(defined[k].body.fields) :
             ~Nearest(classes, RegistryOf(k),
                      ColumnType(defined[k].body.model, e.key)).found
       THEN defined[k].error = UnsupportedColumnType
       ELSE /\ defined[k].cls # 0
            /\ GeneratedKeys(classes, defined[k].cls) =
                  UNION { NearestKeys(k, e) :
                             e \in Elements(defined[k].body.fields) }

\* C17: the names of the nested types created in a process (the type of a
\* relation path and its _and, _or, _not operand types) are pairwise
\* distinct.
C17_DistinctTypeNames ==
    \A i, j \in 1..Len(auto_types) :
       i # j => auto_types[i] # auto_types[j]

(***************************************************************************)
(* Claims about custom filters, checked under SpecCustom                   *)
(***************************************************************************)
RECURSIVE DeclaredBy(_)
\* the input fields declared in the body of a class and of its bases
DeclaredBy(n) ==
    IF n = 0 THEN {}
    ELSE Elements(GraphqlObjects[n].declared)
         \cup DeclaredBy(GraphqlObjects[n].base)

\* the keys generated for the field spec of a class statement whose entries
\* are operator lists and relationship mappings, and the boolean keys
DefaultKeys(body) ==
    UNION { IF e.kind = "list"
            THEN KeysOf(GRAPHQL_EXPRESSION_NAMES, e.key, e.ops)
            ELSE {e.key}
            : e \in Elements(body.fields) }
    \cup BooleanKeys

\* the index of a class of tests/graphql_objects.py
IndexOf(c) ==
    CHOOSE n \in 1..Len(GraphqlObjects) : GraphqlObjects[n].name = c

\* the resolver <key>_filter applied to (info, query, value)
Resolved(e, q) == custom_filter("UserFilter", info, e.key, q, e)

RECURSIVE Threaded(_, _, _)
RECURSIVE ThreadedOperands(_, _, _)
\* the query after the keys i.. of a mapping were translated in order, each
\* custom filter that returns a pair replacing the query for what follows
Threaded(level, i, q) ==
    IF i > Len(level) THEN q
    ELSE IF level[i].key \in DeclaredBy(IndexOf("UserFilter"))
    THEN Threaded(level, i + 1,
                  IF Resolved(level[i], q).tuple THEN Resolved(level[i], q).query
                  ELSE q)
    ELSE IF level[i].kind = "dicts"
    THEN Threaded(level, i + 1, ThreadedOperands(level[i].subs, 1, q))
    ELSE IF level[i].kind = "dict"
    THEN Threaded(level, i + 1, Threaded(level[i].subs[1], 1, q))
    ELSE Threaded(level, i + 1, q)

ThreadedOperands(operands, i, q) ==
    IF i > Len(operands) THEN q
    ELSE ThreadedOperands(operands, i + 1, Threaded(operands[i], 1, q))

\* a non-empty level whose keys are custom keys or leaf keys
CustomOrLeaf(level, c) ==
    /\ level # <<>>
    /\ \A i \in 1..Len(level) :
          \/ level[i].key \in DeclaredBy(IndexOf(c))
          \/ IsLeafKey(level[i], ModelOf(c))

\* the predicate of each key of such a level: what the resolver returns for
\* the query as the keys before it left it, or the operator function
KeyPredicates(level, c, q) ==
    [i \in 1..Len(level) |->
        IF level[i].key \in DeclaredBy(IndexOf(c))
        THEN Resolved(level[i], Threaded(SubSeq(level, 1, i - 1), 1, q)).clause
        ELSE LeafPredicate(level[i], ModelOf(c))]

\* C11: the custom keys of a filter-set are the input fields declared on the
\* class or on its bases that are not generated default keys; a custom key
\* of a request is not split into field and operator but translated by its
\* resolver <key>_filter(info, query, value), whose clause is the key's
\* predicate.
C11_CustomKeys ==
    /\ \A c \in {UserFilter, F} :
          custom_filters(c.name) = DeclaredBy(IndexOf(c.name)) \ DefaultKeys(c)
    /\ (Done /\ CustomOrLeaf(filters, cls)) =>
          /\ Returned
          /\ ret.query.where =
                Append(query.where,
                       Conjunction(KeyPredicates(filters, cls, query)))

C11_Witness ==
    /\ Returned
    /\ cls = "F"
    /\ filters = << Scalar(<<"is", "admin">>, 1),
                    Scalar(<<"username", "ilike">>, 1) >>
    /\ ret.query.where =
          << Clause("and", << Compare("eq", "User", <<"username">>, ADMIN, 0),
                              Compare(ILIKE, "User", <<"username">>, 1, 0) >>) >>

\* some key of the tree is a custom key whose resolver returns a pair
HasPair(level) ==
    UsesKey(level, {<<"is", "moderator">>, <<"member", "of", "group">>})

\* C12: the query a custom resolver returns in a pair replaces the current
\* query for every key translated after it in the pass (later siblings and
\* operands, enclosing levels); the query returned by filter is the threaded
\* query with the composed predicate added; a resolver that returns a bare
\* predicate leaves the query as it was.
C12_QueryThreaded ==
    Done =>
        /\ Returned
        /\ ret.query.entity = query.entity
        /\ ret.query.joins = Threaded(filters, 1, query).joins
        /\ ~HasPair(filters) => ret.query.joins = query.joins
        /\ Len(ret.query.where) =
              Len(query.where) + (IF filters = <<>> THEN 0 ELSE 1)
        /\ SubSeq(ret.query.where, 1, Len(query.where)) = query.where

C12_Witness ==
    /\ Returned
    /\ filters = << Dicts(<<"and">>, << << Scalar(<<"is", "moderator">>, 1) >> >>),
                    Scalar(<<"member", "of", "group">>, 6) >>
    /\ Len(ret.query.joins) = 3
    /\ ret.query.where =
          << Clause("and",
                << Compare("is_not_null", "Membership", <<"id">>, 1, 0),
                   Compare("eq", "Group", <<"name">>, 6, 3) >>) >>

(***************************************************************************)
(* Claims about Enum columns, checked under SpecEnum                       *)
(***************************************************************************)
\* the attribute of a leaf key is an Enum column bound to an enum class
IsEnumKey(e, m) == ColumnType(m, KeyAttribute(e.key)) = "Enum"

\* the enum member of each raw value of an entry
Members(e) ==
    IF e.kind = "list"
    THEN List(e.key, StatusEnum(e.val), StatusEnum(e.val2))
    ELSE Scalar(e.key, StatusEnum(e.val))

\* the operator function of a leaf key applied to the members for an Enum
\* column and to the value as it came for any other column
HandedOver(level, m) ==
    [i \in 1..Len(level) |->
        FILTER_FUNCTIONS(KeyOperator(level[i].key), m,
                         KeyAttribute(level[i].key),
                         IF IsEnumKey(level[i], m) THEN Members(level[i])
                         ELSE level[i])]

\* C18: for a leaf key on an Enum column the operator function receives the
\* enum member built from the raw value, a list of members built element by
\* element for a list; for any other column it receives the value
\* unchanged.
C18_EnumMembers ==
    (Done /\ AllLeaves(filters, ModelOf(cls))) =>
        /\ Returned
        /\ ret.query.where =
              Append(query.where, Conjunction(HandedOver(filters, ModelOf(cls))))

\* the same holds for the requests without an is_null key
EnumMembersExceptIsNull ==
    (Done /\ AllLeaves(filters, ModelOf(cls))
          /\ ~UsesKey(filters, {<<"status", "is", "null">>})) =>
        /\ Returned
        /\ ret.query.where =
              Append(query.where, Conjunction(HandedOver(filters, ModelOf(cls))))

(***************************************************************************)
(* NestedFilterableConnectionField._get_or_create_data_loader              *)
(* A field path is the sequence of its elements: response keys (strings)   *)
(* and list indices (integers).                                            *)
(***************************************************************************)
MaxLoads == 3
MaxIndex == 1

\* elements of info.path
Str(s) == [str |-> TRUE, name |-> s, index |-> 0]
Index(i) == [str |-> FALSE, name |-> "", index |-> i]

\* the path of the node i of a connection field
Edge(field, i) == << Str(field), Str("edges"), Index(i), Str("node") >>

\* the paths of the nested fields of a request: groups and its alias
\* anotherGroups under the users, and users under the groups
Paths ==
    { Edge("user", i) \o <<Str(f)>> :
         i \in 0..MaxIndex, f \in {"groups", "anotherGroups"} }
    \cup { Edge("user", i) \o Edge("groups", j) \o <<Str("users")>> :
              i \in 0..MaxIndex, j \in 0..MaxIndex }

\* no translation is going on
NoFiltering ==
    /\ cls = ""
    /\ info = NoInfo
    /\ query = NewQuery("")
    /\ filters = <<>>
    /\ ret = NoRet
    /\ Idle
    /\ origin = NoOrigin

\* every element of the path
whole_path(path) == path

\* line 321: tuple(p for p in info.path if isinstance(p, str))
data_loader_key(path) == SelectSeq(path, LAMBDA p : p.str)

\* lines 308-318: the dict of loaders the context holds, created on first use
data_loaders_of(c) == IF c.has THEN c.data_loaders ELSE <<>>

\* the ModelLoader objects are named by their order of creation
NewLoader(c) == Len(data_loaders_of(c)) + 1

InitLoaders ==
    /\ NoDefinitions
    /\ NoFiltering
    /\ pc = "resolving"
    /\ context \in { [type |-> t, has |-> FALSE, data_loaders |-> <<>>] :
                        t \in {"dict", "object"} }
    /\ calls = <<>>
    /\ session = {}
    /\ loader = [parent_model |-> "", sort |-> "", filters |-> 0]
    /\ promise = [keys |-> <<>>, state |-> "", value |-> <<>>, error |-> ""]
    /\ queues = <<>>
    /\ batches = <<>>
    /\ connection_field = NoField

\* cls._get_or_create_data_loader(root, model, info, args) with info.path
get_or_create_data_loader(path) ==
    /\ pc = "resolving"
    /\ Len(calls) < MaxLoads
    /\ IF HasEntry(data_loaders_of(context), data_loader_key(path))
       THEN /\ context' = [context EXCEPT !.has = TRUE,
                              !.data_loaders = data_loaders_of(context)]
            /\ calls' = Append(calls,
                           [path |-> path,
                            loader |-> Get(data_loaders_of(context),
                                           data_loader_key(path)).loader])
       ELSE /\ context' = [context EXCEPT !.has = TRUE,
                              !.data_loaders =
                                  Append(data_loaders_of(context),
                                         [key |-> data_loader_key(path),
                                          loader |-> NewLoader(context)])]
            /\ calls' = Append(calls, [path |-> path,
                                       loader |-> NewLoader(context)])
    /\ UNCHANGED <<pc, cls, origin, key, split, info, query, filters, ret,
                   aliases, session, loader, promise, queues, batches,
                   connection_field>>
    /\ UNCHANGED definitions

NextLoaders == \E path \in Paths : get_or_create_data_loader(path)

SpecLoaders == InitLoaders /\ [][NextLoaders]_vars

\* the string elements of a path, in order
Strings(path) ==
    LET strs == SelectSeq(path, LAMBDA p : p.str)
    IN  [i \in 1..Len(strs) |-> strs[i].name]

\* C19: with one context object, dict or attribute bag, two calls of
\* _get_or_create_data_loader return the same loader if and only if their
\* paths have the same sequence of string elements, list indices ignored.
C19_LoaderPerStringPath ==
    \A i, j \in 1..Len(calls) :
       (calls[i].loader = calls[j].loader)
          <=> (Strings(calls[i].path) = Strings(calls[j].path))

C19_Witness ==
    /\ context.type = "object"
    /\ Len(calls) = 3
    /\ calls[1].path = Edge("user", 0) \o <<Str("groups")>>
    /\ calls[2].path = Edge("user", 1) \o <<Str("groups")>>
    /\ calls[3].path = Edge("user", 0) \o <<Str("anotherGroups")>>
    /\ calls[1].loader = calls[2].loader
    /\ calls[3].loader # calls[1].loader

(***************************************************************************)
(* ModelLoader: the related objects of a batch of parent rows.             *)
(* The parents are the users (primary key id) with their groups and the    *)
(* authors (primary key first_name, last_name) with their articles.  A row *)
(* is a dict of its columns; a child row holds the key of its parent and   *)
(* the column the request filters and sorts by (Group.name, Article.text). *)
(* Every behaviour has a session of its own, in which no collection of a   *)
(* parent is loaded before the batch.                                      *)
(***************************************************************************)
MaxKeys == 2
MaxValue == 2

Value(name, v) == [key |-> name, val |-> v]

\* ModelLoader._get_model_pks: the names of the primary key columns
get_model_pks(model) ==
    IF model = "Author" THEN << "first_name", "last_name" >> ELSE << "id" >>

\* the rows of the parent models in the database
ParentRows(model) ==
    IF model = "Author"
    THEN { << Value("first_name", 1), Value("last_name", 1) >>,
           << Value("first_name", 1), Value("last_name", 2) >> }
    ELSE { << Value("id", 1) >>, << Value("id", 2) >> }

\* ModelLoader.parent_model_object_to_key
parent_model_object_to_key(model, parent_object) ==
    [i \in 1..Len(get_model_pks(model)) |->
        Get(parent_object, get_model_pks(model)[i]).val]

\* the keys a resolver may ask for: one of them has no row
KeysOfModel(model) ==
    IF model = "Author" THEN { <<1, 1>>, <<1, 2>>, <<2, 1>> }
    ELSE { <<1>>, <<2>>, <<3>> }

\* the rows of the related model a session may hold
ChildRows(model) ==
    { [parent |-> parent_model_object_to_key(model, p), value |-> v] :
         p \in ParentRows(model), v \in 1..MaxValue }

\* ModelLoader(parent_model, model, info, graphql_args): sort is the 'sort'
\* of graphql_args ("None" when the args have none), filters the value the
\* 'filters' ask the column to equal (0 when the args have none)
Loaders ==
    { [parent_model |-> m, sort |-> s, filters |-> f] :
         m \in {"User", "Author"}, s \in {"None", "ASC", "DESC"},
         f \in 0..1 }

Queued(keys) == [keys |-> keys, state |-> "queued", value |-> <<>>,
                 error |-> ""]

InitBatch ==
    /\ NoDefinitions
    /\ NoFiltering
    /\ pc = "loading"
    /\ context = [type |-> "dict", has |-> FALSE, data_loaders |-> <<>>]
    /\ calls = <<>>
    /\ loader \in Loaders
    /\ session \in SUBSET ChildRows(loader.parent_model)
    /\ promise = Queued(<<>>)
    /\ queues = <<>>
    /\ batches = <<>>
    /\ connection_field = NoField

\* connection_resolver: data_loader.load(root_pk_value); a key already
\* asked for is served by the promise the loader cached for it
Load(k) ==
    /\ pc = "loading"
    /\ promise.state = "queued"
    /\ Len(promise.keys) < MaxKeys
    /\ \A i \in 1..Len(promise.keys) : promise.keys[i] # k
    /\ promise' = Queued(Append(promise.keys, k))
    /\ UNCHANGED <<pc, cls, origin, key, split, info, query, filters, ret,
                   aliases, context, calls, session, loader, queues, batches,
                   connection_field>>
    /\ UNCHANGED definitions

\* lines 245-250: the subquery of the related model, filtered
Subquery(l, rows) ==
    IF l.filters # 0 THEN { r \in rows : r.value = l.filters } ELSE rows

\* lines 161-170: the parents whose key is among the keys, a single column
\* compared with the first element of every key, several columns as a tuple
KeyIn(model, parent_object, keys) ==
    IF Len(get_model_pks(model)) = 1
    THEN Get(parent_object, get_model_pks(model)[1]).val
            \in { keys[i][1] : i \in 1..Len(keys) }
    ELSE parent_model_object_to_key(model, parent_object)
            \in { keys[i] : i \in 1..Len(keys) }

\* lines 265-282: the values in the order of the sort
RECURSIVE Ordered(_, _)
Ordered(values, sort) ==
    IF values = {} THEN <<>>
    ELSE LET first == IF sort = "DESC"
                      THEN CHOOSE v \in values : \A w \in values : w <= v
                      ELSE CHOOSE v \in values : \A w \in values : v <= w
         IN  <<first>> \o Ordered(values \ {first}, sort)

\* lines 252-259 and 172-177: the join returns the parents that have a row
\* in the subquery, each with its collection loaded from the joined rows
Objects(l, rows, keys) ==
    { [key |-> parent_model_object_to_key(l.parent_model, p),
       collection |->
           Ordered({ r.value : r \in
                       { c \in Subquery(l, rows) :
                           c.parent =
                             parent_model_object_to_key(l.parent_model, p) } },
                   l.sort)] :
        p \in { o \in ParentRows(l.parent_model) :
                  /\ KeyIn(l.parent_model, o, keys)
                  /\ \E c \in Subquery(l, rows) :
                        c.parent =
                          parent_model_object_to_key(l.parent_model, o) } }

\* lines 178-180: objects.get(object_id, [])
ObjectsGet(objects, object_id) ==
    IF \E o \in objects : o.key = object_id
    THEN (CHOOSE o \in objects : o.key = object_id).collection
    ELSE <<>>

\* ModelLoader.batch_load_fn(keys): _sorted_query iterates over the sort,
\* which is None when graphql_args have no 'sort'
batch_load_fn(l, rows, keys) ==
    IF l.sort = "None"
    THEN [keys |-> keys, state |-> "rejected", value |-> <<>>,
          error |-> "TypeError"]
    ELSE [keys |-> keys, state |-> "resolved",
          value |-> [i \in 1..Len(keys) |->
                        ObjectsGet(Objects(l, rows, keys), keys[i])],
          error |-> ""]

\* the loader dispatches the queue of keys to batch_load_fn
BatchLoad ==
    /\ pc = "loading"
    /\ promise.state = "queued"
    /\ promise.keys # <<>>
    /\ promise' = batch_load_fn(loader, session, promise.keys)
    /\ UNCHANGED <<pc, cls, origin, key, split, info, query, filters, ret,
                   aliases, context, calls, session, loader, queues, batches,
                   connection_field>>
    /\ UNCHANGED definitions

NextBatch ==
    \/ \E k \in KeysOfModel(loader.parent_model) : Load(k)
    \/ BatchLoad

SpecBatch == InitBatch /\ [][NextBatch]_vars

\* the related collection of the parent with the key k: the values of the
\* rows of the session that belong to k and pass the filters
Related(k) ==
    { r.value : r \in { c \in session :
                          /\ c.parent = k
                          /\ loader.filters \in {0, c.value} } }

IsOrdered(s, sort) ==
    \A i \in 1..Len(s) - 1 :
       IF sort = "DESC" THEN s[i] > s[i + 1] ELSE s[i] < s[i + 1]

Batched == promise.state \notin {"", "queued"}

RelatedCollections ==
    /\ promise.state = "resolved"
    /\ Len(promise.value) = Len(promise.keys)
    /\ \A i \in 1..Len(promise.keys) :
          /\ { promise.value[i][n] : n \in 1..Len(promise.value[i]) }
                = Related(promise.keys[i])
          /\ Len(promise.value[i]) = Cardinality(Related(promise.keys[i]))
          /\ IsOrdered(promise.value[i], loader.sort)

\* C20: batch_load_fn(keys) resolves to a list as long as keys whose i-th
\* element is the related collection of the parent whose primary-key tuple
\* is keys[i], in the order of the requested sort, and the empty list for a
\* key without a parent row.
C20_BatchLoaded == Batched => RelatedCollections

\* the same for the loaders whose arguments hold a sort
BatchLoadedWithSort ==
    (Batched /\ loader.sort # "None") => RelatedCollections

\* a batch of a composite key and of a key without a row, both answered
BatchOfAbsentKey ==
    /\ loader.parent_model = "Author"
    /\ loader.sort = "DESC"
    /\ promise.state = "resolved"
    /\ promise.keys = << <<2, 1>>, <<1, 2>> >>
    /\ promise.value = << <<>>, <<2, 1>> >>

(***************************************************************************)
(* NestedFilterableConnectionField.connection_resolver during one tick of  *)
(* the execution: the nested fields of the parent rows of a connection are *)
(* resolved one after the other, each call asks the loader of its path for *)
(* the key of its parent, and the loaders dispatch their queues when the   *)
(* resolvers of the tick have run.                                         *)
(***************************************************************************)

\* the parent rows in the order of the edges of the connection
RECURSIVE EdgesOf(_)
EdgesOf(rows) ==
    IF rows = {} THEN <<>>
    ELSE LET first == CHOOSE r \in rows :
                         \A o \in rows : r = o \/ r[Len(r)].val <= o[Len(o)].val
         IN  <<first>> \o EdgesOf(rows \ {first})

\* the nested connection fields the request selects on every node
NestedFields(model) ==
    IF model = "Author" THEN {"articles"} ELSE {"groups", "anotherGroups"}

RootField(model) == IF model = "Author" THEN "allAuthors" ELSE "user"

\* info.path of the field f of the i-th node
PathOf(model, i, f) == Edge(RootField(model), i - 1) \o <<Str(f)>>

\* the resolver calls of the tick
Resolvers(model) ==
    { [index |-> i, field |-> f] :
         i \in 1..Len(EdgesOf(ParentRows(model))), f \in NestedFields(model) }

\* the arguments of the nested fields: the sort argument of a connection
\* field has a default value, filters are optional
TickArgs ==
    { l \in Loaders : l.sort # "None" }

InitTick ==
    /\ NoDefinitions
    /\ NoFiltering
    /\ pc = "tick"
    /\ context \in { [type |-> t, has |-> FALSE, data_loaders |-> <<>>] :
                        t \in {"dict", "object"} }
    /\ calls = <<>>
    /\ loader \in TickArgs
    /\ session \in SUBSET ChildRows(loader.parent_model)
    /\ promise = [keys |-> <<>>, state |-> "", value |-> <<>>, error |-> ""]
    /\ queues = <<>>
    /\ batches = <<>>
    /\ connection_field = NoField

\* a loader of its own for every call
uncached_data_loader(c, path) == NewLoader(c)

\* lines 323-327: the loader of the path, created on a miss
current_data_loader(c, path) ==
    IF HasEntry(data_loaders_of(c), data_loader_key(path))
    THEN Get(data_loaders_of(c), data_loader_key(path)).loader
    ELSE NewLoader(c)

\* the queue of a loader created on a miss is empty
QueueOf(qs, l) == IF l <= Len(qs) THEN qs[l] ELSE Queued(<<>>)

\* DataLoader.load(key): a key already asked for is not queued again
Enqueued(q, k) ==
    IF \E i \in 1..Len(q.keys) : q.keys[i] = k THEN q
    ELSE Queued(Append(q.keys, k))

\* lines 356-360 for the field r.field of the node r.index
connection_resolver(r) ==
    LET path == PathOf(loader.parent_model, r.index, r.field)
        root == EdgesOf(ParentRows(loader.parent_model))[r.index]
        root_pk_value == parent_model_object_to_key(loader.parent_model, root)
        l == current_data_loader(context, path)
    IN  /\ pc = "tick"
        /\ \A i \in 1..Len(calls) : calls[i].path # path
        /\ context' =
              [context EXCEPT !.has = TRUE,
                  !.data_loaders =
                      IF HasEntry(data_loaders_of(context),
                                  data_loader_key(path))
                      THEN data_loaders_of(context)
                      ELSE Append(data_loaders_of(context),
                                  [key |-> data_loader_key(path),
                                   loader |-> l])]
        /\ queues' =
              IF l <= Len(queues)
              THEN [queues EXCEPT ![l] = Enqueued(@, root_pk_value)]
              ELSE Append(queues, Enqueued(QueueOf(queues, l), root_pk_value))
        /\ calls' = Append(calls, [path |-> path, loader |-> l,
                                   key |-> root_pk_value])
        /\ UNCHANGED <<pc, cls, origin, key, split, info, query, filters,
                       ret, aliases, session, loader, promise, batches,
                       connection_field>>
        /\ UNCHANGED definitions

\* the resolvers of the tick have all run
TickOver ==
    Len(calls) = Cardinality(Resolvers(loader.parent_model))

\* the loader l dispatches its queue: one run of batch_load_fn
Dispatch(l) ==
    /\ pc = "tick"
    /\ TickOver
    /\ queues[l].state = "queued"
    /\ queues' = [queues EXCEPT
                     ![l] = batch_load_fn(loader, session, queues[l].keys)]
    /\ batches' = Append(batches, [loader |-> l, keys |-> queues[l].keys])
    /\ UNCHANGED <<pc, cls, origin, key, split, info, query, filters, ret,
                   aliases, context, calls, session, loader, promise,
                   connection_field>>
    /\ UNCHANGED definitions

NextTick ==
    \/ \E r \in Resolvers(loader.parent_model) : connection_resolver(r)
    \/ \E l \in 1..Len(queues) : Dispatch(l)

SpecTick == InitTick /\ [][NextTick]_vars

\* the calls of the tick for the nested field f
CallsOf(f) ==
    { i \in 1..Len(calls) : calls[i].path[Len(calls[i].path)].name = f }

\* the runs of batch_load_fn that hold the key of the call i
BatchesOf(i) ==
    { b \in 1..Len(batches) :
         \E n \in 1..Len(batches[b].keys) :
            /\ batches[b].loader = calls[i].loader
            /\ batches[b].keys[n] = calls[i].key }

\* what the promise of the call i resolved to
Received(i) ==
    LET q == queues[calls[i].loader]
    IN  q.value[CHOOSE n \in 1..Len(q.keys) : q.keys[n] = calls[i].key]

Dispatched ==
    /\ TickOver
    /\ \A l \in 1..Len(queues) : queues[l].state # "queued"

default_filter(c) ==
    IF c = "UserFilter"
    THEN << Compare("is", "User", <<"is", "active">>, 1, 0) >>
    ELSE <<>>

\* lines 83-90: the query of the connection field, in the order of the sort,
\* filtered with the filters of the request if it has any; the order does
\* not touch the criteria of the query
get_query(c, i, q, request_filters) ==
    IF request_filters # <<>>
    THEN FilterSet_filter(c, i, q, request_filters)
    ELSE [raised |-> FALSE, error |-> NoError, query |-> q]

InitQuery ==
    /\ NoDefinitions
    /\ NoLoading
    /\ pc = "request"
    /\ cls \in {"UserFilter", "TaskFilter"}
    /\ Request("schema", ModelOf(cls))
    /\ info \in {NewInfo(t) : t \in {"dict", "object"}}
    /\ query = NewQuery(ModelOf(cls))
    /\ ret = NoRet
    /\ Idle

\* the connection field resolves: cls.get_query(model, info, sort, **args)
GetQuery ==
    /\ pc = "request"
    /\ ret' = get_query(cls, info, query, filters)
    /\ info' = IF filters # <<>> THEN ResetContext(info) ELSE info
    /\ pc' = IF ret'.raised THEN "raised" ELSE "returned"
    /\ UNCHANGED <<cls, origin, key, split, query, filters, aliases>>
    /\ UNCHANGED definitions
    /\ UNCHANGED loading

NextQuery == GetQuery

SpecQuery == InitQuery /\ [][NextQuery]_vars

\* C22: get_query applies the default filter of the filter-set first and
\* the filters of the request after it: the default predicate is a criterion
\* of the returned query also when the request has no filters, and with
\* filters the criteria are the default predicate and the user predicate.
C22_DefaultFilterFirst ==
    (pc = "returned" /\ default_filter(cls) # <<>>) =>
       /\ Len(ret.query.where) >= 1
       /\ ret.query.where[1] = default_filter(cls)[1]
       /\ filters # <<>> =>
             ret.query.where
                = default_filter(cls)
                    \o FilterSet_filter(cls, info, query, filters).query.where

(***************************************************************************)
(* FilterSet.filter on the kinds of info.context: a dict, an object with   *)
(* a __dict__, an object with __slots__ = ()                               *)
(***************************************************************************)

\* requests with the custom keys of UserFilter, to UserFilter, whose
\* resolvers call cls.aliased(query, ...), and to FilterAliasedResolveInfo
InitContext ==
    /\ NoDefinitions
    /\ NoLoading
    /\ pc = "request"
    /\ cls \in {"UserFilter", "FilterAliasedResolveInfo"}
    /\ Request("custom", "User")
    /\ KeysOfTree(filters) \subseteq Keys(ClassNamed(cls).fields)
    /\ info \in {NewInfo(t) : t \in ContextTypes}
    /\ query = NewQuery("User")
    /\ ret = NoRet
    /\ Idle

SpecContext == InitContext /\ [][NextFilter]_vars

Warned(w) == \E n \in 1..Len(info.warnings) : info.warnings[n] = w

\* some resolver of the pass calls cls.aliased(info, ...)
DeprecatedPath ==
    /\ cls = "FilterAliasedResolveInfo"
    /\ UsesKey(filters, {<<"is", "moderator">>})

C23_WitnessRaised ==
    /\ Raised
    /\ info.context = "slots"
    /\ cls = "FilterAliasedResolveInfo"
    /\ info.warnings = <<"RuntimeWarning", "DeprecationWarning">>
    /\ ret.error.type = "RuntimeError"

(***************************************************************************)
(* The filter argument of a FilterableConnectionField subclass: the class  *)
(* statement (__init_subclass__), the factory called for a relationship    *)
(* of a node type, and the resolution of the nested field it made.         *)
(***************************************************************************)
DEFAULT_FILTER_ARG == "filters"

\* lines 54-69: the factory and the loader class of the factory
init_subclass(filter_arg, declares) ==
    [NoField EXCEPT
        !.filter_arg = filter_arg,
        !.filters = declares,
        !.factory = IF declares THEN "FilterableFieldFactory"
                    ELSE "default_connection_field_factory",
        !.model_loader_class =
            IF ~declares THEN ""
            ELSE IF filter_arg # DEFAULT_FILTER_ARG THEN filter_arg
            ELSE DEFAULT_FILTER_ARG]

\* lines 395-402: the argument of the nested field that holds the filter-set
\* of the related model, "" when model_filters has none for it
factory_call(f, has_filter_set) ==
    IF has_filter_set THEN [f EXCEPT !.nested = f.model_loader_class] ELSE f

\* line 326: the loader is a ModelLoader, whose filter_arg is the default
loader_filter_arg(f) == DEFAULT_FILTER_ARG

\* line 245: self.graphql_args.get(self.filter_arg)
request_filters(args, filter_arg) ==
    IF args.name = filter_arg THEN args.value ELSE 0

InitFilterArg ==
    /\ NoDefinitions
    /\ NoFiltering
    /\ pc = "class"
    /\ context = [type |-> "dict", has |-> FALSE, data_loaders |-> <<>>]
    /\ calls = <<>>
    /\ session \in SUBSET ChildRows("User")
    /\ loader = [parent_model |-> "", sort |-> "", filters |-> 0]
    /\ promise = [keys |-> <<>>, state |-> "", value |-> <<>>, error |-> ""]
    /\ queues = <<>>
    /\ batches = <<>>
    /\ connection_field = NoField

\* class CustomField(FilterableConnectionField) with filter_arg and filters
Subclass(filter_arg, declares) ==
    /\ pc = "class"
    /\ connection_field' = init_subclass(filter_arg, declares)
    /\ pc' = "schema"
    /\ UNCHANGED <<cls, origin, key, split, info, query, filters, ret,
                   aliases, context, calls, session, loader, promise,
                   queues, batches>>
    /\ UNCHANGED definitions

\* the node type converts a relationship: factory(relationship, registry)
FactoryCall(has_filter_set) ==
    /\ pc = "schema"
    /\ connection_field.factory = "FilterableFieldFactory"
    /\ connection_field' = factory_call(connection_field, has_filter_set)
    /\ pc' = "field"
    /\ UNCHANGED <<cls, origin, key, split, info, query, filters, ret,
                   aliases, context, calls, session, loader, promise,
                   queues, batches>>
    /\ UNCHANGED definitions

\* connection_resolver of the nested field groups of the user root, with
\* the sort and, under the name of the field's filter argument, the value
\* the request asks Group.name to equal (0: no filters in the request)
ResolveNested(root, sort, value) ==
    LET args == [name |-> IF value = 0 THEN "" ELSE connection_field.nested,
                 value |-> value]
        path == PathOf("User", 1, "groups")
    IN  /\ pc = "field"
        /\ value # 0 => connection_field.nested # ""
        /\ connection_field' = [connection_field EXCEPT !.args = args]
        /\ loader' = [parent_model |-> "User", sort |-> sort,
                      filters |-> request_filters(args,
                                      loader_filter_arg(connection_field))]
        /\ context' = [context EXCEPT !.has = TRUE,
                          !.data_loaders =
                              << [key |-> data_loader_key(path), loader |-> 1] >>]
        /\ calls' = Append(calls, [path |-> path, loader |-> 1])
        /\ promise' = Queued(<< parent_model_object_to_key("User", root) >>)
        /\ pc' = "loading"
        /\ UNCHANGED <<cls, origin, key, split, info, query, filters, ret,
                       aliases, session, queues, batches>>
        /\ UNCHANGED definitions

NextFilterArg ==
    \/ \E a \in {DEFAULT_FILTER_ARG, "where"} : \E d \in BOOLEAN :
          Subclass(a, d)
    \/ \E h \in BOOLEAN : FactoryCall(h)
    \/ \E root \in ParentRows("User") : \E s \in {"ASC", "DESC"} :
          \E v \in 0..1 : ResolveNested(root, s, v)
    \/ \E k \in KeysOfModel(loader.parent_model) : Load(k)
    \/ BatchLoad

SpecFilterArg == InitFilterArg /\ [][NextFilterArg]_vars

\* C24: with filters and a filter_arg of its own on the field class, the
\* factory's loader class and the nested field use that argument name, and
\* the loader of the nested field reads the filters of the request from it:
\* filters passed under the name are applied to the nested query.
C24_CustomFilterArg ==
    (connection_field.filters
       /\ connection_field.filter_arg # DEFAULT_FILTER_ARG) =>
       /\ connection_field.model_loader_class = connection_field.filter_arg
       /\ connection_field.nested
             \in {"", connection_field.filter_arg}
       /\ pc = "loading" =>
             /\ loader.filters = connection_field.args.value
             /\ (promise.state = "resolved"
                   /\ connection_field.args.value # 0) =>
                   \A i \in 1..Len(promise.value) :
                      \A n \in 1..Len(promise.value[i]) :
                         promise.value[i][n] = connection_field.args.value

\* the same with the default argument name
DefaultFilterArg ==
    (pc = "loading"
       /\ connection_field.filter_arg = DEFAULT_FILTER_ARG) =>
       /\ loader.filters = connection_field.args.value
       /\ (promise.state = "resolved" /\ connection_field.args.value # 0) =>
             \A i \in 1..Len(promise.value) :
                \A n \in 1..Len(promise.value[i]) :
                   promise.value[i][n] = connection_field.args.value

(***************************************************************************)
(* Empty sub-trees under and / or / not                                    *)
(***************************************************************************)
RECURSIVE OnlyEmptyBooleans(_)
\* every key of the tree is and, or or not: no key at any depth carries a
\* value to compare with ({and: []}, {or: [{}]}, {not: {}}, {not: {and: []}})
OnlyEmptyBooleans(level) ==
    \A i \in 1..Len(level) :
        /\ level[i].key \in BooleanKeys
        /\ \A j \in 1..Len(level[i].subs) : OnlyEmptyBooleans(level[i].subs[j])

\* C25: empty sub-trees contribute nothing at every level: a request made
\* only of and / or keys with empty lists or empty operands and of not keys
\* with empty mappings returns the query it was given, as the empty tree
\* does, with no filter applied.
C25_EmptySubTrees ==
    (/\ Done
     /\ filters # <<>>
     /\ OnlyEmptyBooleans(filters)) =>
        /\ Returned
        /\ ret.query = query

(***************************************************************************)
(* The alias cache on the context, checked under SpecAlias                 *)
(***************************************************************************)
\* the calls aliased(info, ...) that returned an alias
InfoCalls == { n \in 1..Len(aliases) :
                 aliases[n].call = "info" /\ aliases[n].error = "" }

\* C26: the alias cache held on the context lives one filtering pass: each
\* call of filter leaves a fresh, empty mapping under _filter_aliases on a
\* dict or object context; the calls aliased(info, E, name=n) of one pass
\* return the identical alias for the same (E, n), a call of a later pass
\* never returns the alias of an earlier pass, and each such call emits one
\* DeprecationWarning.
C26_AliasCachePerPass ==
    /\ (/\ aliases # <<>>
        /\ aliases[Len(aliases)].call = "filter"
        /\ info.context \in {"dict", "object"}) =>
           /\ info.has_aliases
           /\ info.filter_aliases = {}
    /\ \A i \in InfoCalls : \A j \in InfoCalls :
          (/\ i < j
           /\ aliases[i].element = aliases[j].element
           /\ aliases[i].name = aliases[j].name) =>
              (aliases[i].alias = aliases[j].alias <=> SamePass(i, j))
    /\ Len(SelectSeq(info.warnings, LAMBDA w : w = "DeprecationWarning"))
          = Cardinality({ n \in 1..Len(aliases) : aliases[n].call = "info" })

\* the same (E, n) asked for before and after a call of filter: two aliases
C26_Witness ==
    /\ Len(aliases) = 3
    /\ aliases[1].call = "info"
    /\ aliases[2].call = "filter"
    /\ aliases[3].call = "info"
    /\ aliases[1].element = aliases[3].element
    /\ aliases[1].name = aliases[3].name
    /\ aliases[1].alias # 0
    /\ aliases[3].alias # aliases[1].alias
    /\ Cardinality(info.filter_aliases) = 1

\* the same (E, n) asked for twice in one pass: one alias
C26_WitnessSamePass ==
    /\ Len(aliases) >= 2
    /\ aliases[1].call = "info"
    /\ aliases[2].call = "info"
    /\ aliases[1].element = aliases[2].element
    /\ aliases[1].name = aliases[2].name
    /\ aliases[1].alias # 0
    /\ aliases[2].alias = aliases[1].alias

(***************************************************************************)
(* and / or / not inside a relationship sub-filter                         *)
(***************************************************************************)
RECURSIVE Wrappers(_)
RECURSIVE WrappersIn(_, _)
\* the any / has calls in a predicate
Wrappers(p) ==
    (IF p.op \in {"any", "has"} THEN 1 ELSE 0) + WrappersIn(p.args, Len(p.args))

WrappersIn(ps, n) ==
    IF n = 0 THEN 0 ELSE Wrappers(ps[n]) + WrappersIn(ps, n - 1)

RECURSIVE RelationshipEntries(_, _, _)
RECURSIVE EntriesIn(_, _, _)
\* the relationship keys among the first n entries of a well-formed level
\* and below them
RelationshipEntries(level, m, n) ==
    IF n = 0 THEN 0
    ELSE LET e == level[n]
         IN  RelationshipEntries(level, m, n - 1)
             + (IF IsLeafKey(e, m) THEN 0
                ELSE IF e.key \in BooleanKeys THEN EntriesIn(e.subs, m, Len(e.subs))
                ELSE 1 + EntriesIn(e.subs, RelatedModel(m, e.key), 1))

EntriesIn(subs, m, n) ==
    IF n = 0 THEN 0
    ELSE RelationshipEntries(subs[n], m, Len(subs[n])) + EntriesIn(subs, m, n - 1)

RECURSIVE BooleanInRelationship(_, _)
\* some relationship key of the well-formed tree has and, or or not in its
\* sub-filter
BooleanInRelationship(level, m) ==
    \E i \in 1..Len(level) :
        LET e == level[i]
        IN  IF IsLeafKey(e, m) THEN FALSE
            ELSE IF e.key \in BooleanKeys
            THEN \E j \in 1..Len(e.subs) : BooleanInRelationship(e.subs[j], m)
            ELSE UsesKey(e.subs[1], BooleanKeys)

\* C27: when the sub-filter of a relationship key contains and, or or not,
\* any / has is applied once per relationship key, around the composed
\* sub-predicate: the operands of and / or / not inside the relationship are
\* not wrapped again.
C27_WrappedOnce ==
    (/\ Done
     /\ WellFormed(filters, ModelOf(cls))
     /\ BooleanInRelationship(filters, ModelOf(cls))) =>
        /\ Returned
        /\ WrappersIn(ret.query.where, Len(ret.query.where))
              = RelationshipEntries(filters, ModelOf(cls), Len(filters))

\* without and / or / not below a relationship key there is one wrapper per
\* relationship key
WrappedOncePlain ==
    (/\ Done
     /\ WellFormed(filters, ModelOf(cls))
     /\ ~BooleanInRelationship(filters, ModelOf(cls))) =>
        /\ Returned
        /\ WrappersIn(ret.query.where, Len(ret.query.where))
              = RelationshipEntries(filters, ModelOf(cls), Len(filters))

(***************************************************************************)
(* is_null on a nullable Enum column, checked under SpecEnum               *)
(***************************************************************************)
\* C28: the key status_is_null, generated for the nullable Enum column
\* User.status, translates without raising: status IS NULL for true and
\* status IS NOT NULL for false, as for a nullable column of any other type.
C28_EnumIsNull ==
    (/\ Done
     /\ Len(filters) = 1
     /\ filters[1].key = <<"status", "is", "null">>) =>
        /\ Returned
        /\ ret.query.where =
              Append(query.where,
                     Compare(IF filters[1].val # 0 THEN "is_null"
                             ELSE "is_not_null",
                             "User", <<"status">>, 0, 0))

(***************************************************************************)
(* A key of a related model that a custom filter of the filter-set is      *)
(* named like: User.memberships leads to Membership, whose column          *)
(* is_moderator has the name of UserFilter's custom filter is_moderator.   *)
(***************************************************************************)
\* {memberships: {is_moderator: v}}, alone or with the key id beside it in
\* the sub-filter, between at most two generated keys of the root level
ShadowRequests ==
    LET subs == UNION { { <<Scalar(<<"is", "moderator">>, v)>>,
                          <<Scalar(<<"is", "moderator">>, v), Scalar(<<"id">>, 4)>>,
                          <<Scalar(<<"id">>, 4), Scalar(<<"is", "moderator">>, v)>> }
                        : v \in 0..1 }
        roots == { <<>>, <<Scalar(<<"username", "ilike">>, 1)>>,
                   <<Range(<<"balance", "range">>, 5, 10)>> }
    IN  { rt[1] \o <<Dict(<<"memberships">>, d)>> \o rt[2] :
            d \in subs,
            rt \in { x \in roots \X roots : x[2] = <<>> \/ x[2] # x[1] } }

\* UserFilter declares the custom filter is_moderator, StatusFilter declares
\* no custom filter; both are bound to User
InitShadow ==
    /\ NoDefinitions
    /\ NoLoading
    /\ pc = "request"
    /\ cls \in {"UserFilter", "StatusFilter"}
    /\ filters \in ShadowRequests
    /\ info \in {NewInfo(t) : t \in {"dict", "object"}}
    /\ query \in BaseQueries("User")
    /\ ret = NoRet
    /\ Idle

SpecShadow == InitShadow /\ [][NextFilter]_vars

\* C29: the keys of a relationship sub-filter are resolved against the
\* related model only: is_moderator under memberships is the operator
\* function on Membership.is_moderator, also when the filter-set declares a
\* custom filter is_moderator, whose resolver is not called (the query gets
\* no join).
C29_RelatedModelOnly ==
    Done =>
        /\ Returned
        /\ ret.query.where = Append(query.where, Meaning(filters, "User"))
        /\ ret.query.joins = query.joins

\* the same holds for the filter-set without custom filters
RelatedModelOnlyWithoutCustom ==
    (Done /\ custom_filters(cls) = {}) =>
        /\ Returned
        /\ ret.query.where = Append(query.where, Meaning(filters, "User"))
        /\ ret.query.joins = query.joins

(***************************************************************************)
(* EXTRA_EXPRESSIONS with and without for_types                            *)
(***************************************************************************)
\* Class statements whose EXTRA_EXPRESSIONS list types or leave for_types
\* out: an abstract base and a filter-set that declare eq_zero for Integer,
\* filter-sets that declare the operator without for_types and name it in
\* the list of a column, one of them under another render name
ForTypesBodies(b) ==
    { [b EXCEPT !.abstract = TRUE,
                !.EXTRA_EXPRESSIONS =
                    << Extra(ZERO, <<"eq", "zero">>, <<"Integer">>) >>],
      [b EXCEPT !.model = "User",
                !.EXTRA_EXPRESSIONS =
                    << Extra(ZERO, <<"eq", "zero">>, <<"Integer">>) >>,
                !.fields = << Listed(<<"balance">>, <<ZERO>>) >>],
      [b EXCEPT !.model = "User",
                !.EXTRA_EXPRESSIONS = << Extra(ZERO, <<"is", "zero">>, <<>>) >>,
                !.fields = << Listed(<<"balance">>, <<ZERO>>) >>],
      [b EXCEPT !.model = "User",
                !.EXTRA_EXPRESSIONS = << Extra(NE_ZERO, <<"ne", "zero">>, <<>>) >>,
                !.fields = << Listed(<<"balance">>, <<NE_ZERO, EQ>>) >>],
      [b EXCEPT !.model = "User", !.fields = << All(<<"balance">>) >>] }

NextForTypes ==
    \E base \in 1..Len(classes) :
       \E body \in ForTypesBodies(ClassBody(NextName, base)) :
          Len(defined) < MaxExtras /\ Define(body)

SpecForTypes == InitDefine /\ [][NextForTypes]_vars

RECURSIVE NearestExtra(_, _)
\* the declaration of the operator in the nearest class of the hierarchy
\* that has one in its EXTRA_EXPRESSIONS
NearestExtra(n, k) ==
    IF HasEntry(classes[n].EXTRA_EXPRESSIONS, k)
    THEN Get(classes[n].EXTRA_EXPRESSIONS, k)
    ELSE NearestExtra(classes[n].base, k)

RECURSIVE DeclaredExtras(_)
\* the operator keys the class hierarchy declares in EXTRA_EXPRESSIONS
DeclaredExtras(n) ==
    IF n = 0 THEN {}
    ELSE Keys(classes[n].EXTRA_EXPRESSIONS) \cup DeclaredExtras(classes[n].base)

\* the filter-sets whose definition ran __init_subclass_with_meta__
DefinedFilterSets ==
    { defined[i].cls : i \in { j \in 1..Len(defined) :
                                 /\ defined[j].cls # 0
                                 /\ ~classes[defined[j].cls].abstract } }

\* C30: after a filter-set is defined, every operator key of the merged
\* EXTRA_EXPRESSIONS of its hierarchy has the render name of the nearest
\* declaration in GRAPHQL_EXPRESSION_NAMES and a function in
\* FILTER_FUNCTIONS, whether or not the declaration lists for_types.
C30_ExtrasRegistered ==
    \A n \in DefinedFilterSets : \A k \in DeclaredExtras(n) :
        /\ HasName(classes[n].GRAPHQL_EXPRESSION_NAMES, k)
        /\ NameIn(classes[n].GRAPHQL_EXPRESSION_NAMES, k)
              = NearestExtra(n, k).graphql_name
        /\ k \in classes[n].FILTER_FUNCTIONS

\* the render name is registered in every case, and the function when the
\* nearest declaration lists a type
ExtrasRegisteredForTypes ==
    \A n \in DefinedFilterSets : \A k \in DeclaredExtras(n) :
        /\ HasName(classes[n].GRAPHQL_EXPRESSION_NAMES, k)
        /\ NameIn(classes[n].GRAPHQL_EXPRESSION_NAMES, k)
              = NearestExtra(n, k).graphql_name
        /\ NearestExtra(n, k).for_types # <<>> =>
              k \in classes[n].FILTER_FUNCTIONS

====
